---------------------------- MODULE Spec2Model ----------------------------
(***************************************************************************)
(* Model of cppcheck's uninitialized-variable check                        *)
(* (lib/checkuninitvar.cpp): the pointer/array state tracker               *)
(* (class UninitVar, driven token by token), the transparent-helper scan   *)
(* (UninitVar::analyseFunctions) and the scalar scope walker               *)
(* (CheckUninitVar::checkScope / checkScopeForVariable /                   *)
(* checkIfForWhileHead / isVariableUsage).                                 *)
(*                                                                         *)
(* The token list is the input: a sequence of tokens with their text, the  *)
(* variable id the tokenizer gave them and the link to the matching        *)
(* bracket.  Function bodies are built from a small library of statements  *)
(* in the tokenizer's simplified form (one declaration per statement,      *)
(* `T x = e;` split into `T x ; x = e ;`, braces around every branch).     *)
(***************************************************************************)
EXTENDS Integers, Sequences, FiniteSets, TLC

VARIABLES
    tokens,         \* the token list: Seq of [str, varId, link]
    isC,            \* _tokenizer->isC()
    jobs,           \* _settings->_jobs
    uvarFunctions,  \* UninitVar::uvarFunctions, the process-wide registry
    phase,          \* position of the analysis: which pass is running
    run,            \* number of the analysis run over the token list (1 or 2)
    checks,         \* std::list<ExecutionPath *>: the active trackers
    pos,            \* token the execution-path driver hands to parse() next
    diags,          \* diagnostics reported so far in this run, in order
    firstDiags,     \* diagnostics of the completed first run
    retired,        \* history: variable ids whose tracker has been removed
    trace,          \* history: (token, trackers before, after) of each parse()
    wvar,           \* index in the scope's varlist checkScope() is at
    stack,          \* call stack of checkScopeForVariable() invocations
    started,        \* history: variable ids the scalar walker was started for
    invalidAccess,  \* history: a null Token pointer has been dereferenced
    useMode         \* the mode argument of a direct call of use()

vars == <<tokens, isC, jobs, uvarFunctions, phase, run, checks, pos, diags,
          firstDiags, retired, trace, wvar, stack, started, invalidAccess,
          useMode>>

----------------------------------------------------------------------------
(* Bounds of the model *)

\* number of statements after the declarations in a tracker-pass body
MaxStmts == 3
\* number of statements after the declaration in a scalar-walker body
MaxWalkStmts == 2
\* number of statements after the declarations in a body analysed twice
MaxRunStmts == 2

----------------------------------------------------------------------------
(* Sequences *)

RECURSIVE Flatten(_)
Flatten(ss) ==
    IF ss = <<>> THEN <<>> ELSE Head(ss) \o Flatten(Tail(ss))

Range(s) == {s[i] : i \in 1..Len(s)}

Min(S) == CHOOSE m \in S : \A n \in S : m <= n

----------------------------------------------------------------------------
(* Token view: texts, classification, links, variable ids *)

\* identifiers and keywords: Token::isName()
NameStrs ==
    {"int", "char", "void", "return", "if", "else", "for", "while", "do", "switch",
     "sizeof", "const",
     "typeof", "offsetof", "decltype", "asm", "delete", "new", "break",
     "continue", "throw", "goto", "exit", "abort",
     "malloc", "kmalloc", "free", "kfree", "fclose", "realloc",
     "strncpy", "memset", "printf", "strlen",
     "p", "q", "buf", "x", "y", "a", "m", "cond", "f", "g", "use", "main",
     "FOO"}

\* Token::isStandardType()
StdTypeStrs == {"int", "char", "bool", "short", "long", "float", "double"}

\* Token::isOp(): arithmetical, logical, comparison and bit operators
\* (assignment, ++/-- and , ? : ( ) [ ] are not)
OpStrs ==
    {"+", "-", "*", "/", "%", "<<", ">>", "&", "|", "^", "~", "&&", "||", "!",
     "==", "!=", "<", "<=", ">", ">="}

IncDecStrs == {"++", "--"}

NumStrs == {"0", "1", "2", "3", "4", "5", "6", "7", "8"}

\* MathLib::toLongNumber on the number tokens of the model
toLongNumber(s) ==
    CASE s = "0" -> 0 [] s = "1" -> 1 [] s = "2" -> 2 [] s = "3" -> 3
      [] s = "4" -> 4 [] s = "5" -> 5 [] s = "6" -> 6 [] s = "7" -> 7
      [] s = "8" -> 8 [] OTHER -> 0

\* the string literals of the model, as the characters between the quotes
StrChars(s) ==
    CASE s = "\"hello\"" -> <<"h", "e", "l", "l", "o">>
      [] s = "\"hi\"" -> <<"h", "i">>
      [] s = "\"%s\"" -> <<"%", "s">>
      [] s = "\"%d\"" -> <<"%", "d">>
      [] s = "\"nop\"" -> <<"n", "o", "p">>
      [] OTHER -> <<>>

StrLits == {"\"hello\"", "\"hi\"", "\"%s\"", "\"%d\"", "\"nop\""}

\* Token::getStrLength: characters up to the first NUL, an escape counts one
RECURSIVE StrLenFrom(_, _)
StrLenFrom(cs, i) ==
    IF i > Len(cs) THEN 0
    ELSE IF cs[i] = "\\" THEN 1 + StrLenFrom(cs, i + 2)
    ELSE 1 + StrLenFrom(cs, i + 1)

getStrLength(s) == StrLenFrom(StrChars(s), 1)

Openers == {"(", "[", "{"}
Closers == {")", "]", "}"}

\* the variables of the symbol database, by name
VarNames == {"p", "q", "buf", "x", "a"}

VarIdOfName(n) ==
    CASE n = "p" -> 1 [] n = "q" -> 2 [] n = "buf" -> 3 [] n = "x" -> 4
      [] n = "a" -> 5 [] OTHER -> 0

VarIds == {1, 2, 3, 4, 5}

\* Variable: the declaration facts of each variable id
VarFacts(n, ptr, arr) ==
    [name |-> n, isPointer |-> ptr, isArray |-> arr, isStatic |-> FALSE,
     isExtern |-> FALSE, isConst |-> FALSE, isReference |-> n = "a",
     hasClassType |-> FALSE]

Variable(v) ==
    CASE v = 1 -> VarFacts("p", TRUE, FALSE)
      [] v = 2 -> VarFacts("q", TRUE, FALSE)
      [] v = 3 -> VarFacts("buf", FALSE, TRUE)
      [] v = 5 -> VarFacts("a", FALSE, FALSE)
      [] OTHER -> VarFacts("x", FALSE, FALSE)

\* the matching closer of the opener at i (0 when there is none)
RECURSIVE FindClose(_, _, _)
FindClose(ss, j, depth) ==
    IF j > Len(ss) THEN 0
    ELSE IF ss[j] \in Openers THEN FindClose(ss, j + 1, depth + 1)
    ELSE IF ss[j] \in Closers
         THEN IF depth = 0 THEN j ELSE FindClose(ss, j + 1, depth - 1)
    ELSE FindClose(ss, j + 1, depth)

\* the matching opener of the closer at i (0 when there is none)
RECURSIVE FindOpen(_, _, _)
FindOpen(ss, j, depth) ==
    IF j < 1 THEN 0
    ELSE IF ss[j] \in Closers THEN FindOpen(ss, j - 1, depth + 1)
    ELSE IF ss[j] \in Openers
         THEN IF depth = 0 THEN j ELSE FindOpen(ss, j - 1, depth - 1)
    ELSE FindOpen(ss, j - 1, depth)

FirstIndex(ss, n) ==
    IF n \in Range(ss) THEN Min({i \in 1..Len(ss) : ss[i] = n}) ELSE 0

\* the tokenizer: a variable's tokens carry its id from its declaration on,
\* every bracket is linked to its partner
Tokenize(ss) ==
    [i \in 1..Len(ss) |->
        [str |-> ss[i],
         varId |-> IF ss[i] \in VarNames /\ FirstIndex(ss, ss[i]) <= i
                   THEN VarIdOfName(ss[i]) ELSE 0,
         link |-> IF ss[i] \in Openers THEN FindClose(ss, i + 1, 0)
                  ELSE IF ss[i] \in Closers THEN FindOpen(ss, i - 1, 0)
                  ELSE 0]]

NTok == Len(tokens)

\* a null Token pointer is position 0; past either end is null
At(i) == IF i \in 1..NTok THEN i ELSE 0

Str(i) == IF i \in 1..NTok THEN tokens[i].str ELSE ""
VarIdAt(i) == IF i \in 1..NTok THEN tokens[i].varId ELSE 0
LinkAt(i) == IF i \in 1..NTok THEN tokens[i].link ELSE 0
Next1(i) == IF i \in 1..NTok THEN At(i + 1) ELSE 0

isName(i) == Str(i) \in NameStrs
isNumber(i) == Str(i) \in NumStrs
isStr(i) == Str(i) \in StrLits
isOp(i) == Str(i) \in OpStrs
isIncDec(i) == Str(i) \in IncDecStrs
isStandardType(i) == Str(i) \in StdTypeStrs
isUpperCaseName(i) == Str(i) \in {"FOO"}

\* Variable::nameToken(): the declaration's name token
nameToken(v) ==
    IF \E i \in 1..NTok : tokens[i].varId = v
    THEN Min({i \in 1..NTok : tokens[i].varId = v}) ELSE 0

\* Variable::typeStartToken(): first token of the declaration
RECURSIVE typeStartFrom(_)
typeStartFrom(i) ==
    IF i <= 1 THEN 1
    ELSE IF Str(i - 1) \in {";", "{", "}", "(", ","} THEN i
    ELSE typeStartFrom(i - 1)

typeStartToken(v) == typeStartFrom(nameToken(v))

\* Variable::typeEndToken(): last token of the type, before the name
typeEndToken(v) ==
    IF Str(nameToken(v) - 1) = "*" /\ nameToken(v) - 1 > typeStartToken(v)
    THEN nameToken(v) - 2 ELSE nameToken(v) - 1

----------------------------------------------------------------------------
(* Diagnostics: CheckUninitVar::uninit*Error -> reportError *)

\* a reported error; by and from are history: the check that reported it
\* (varId 0: none, the scalar walker) and the function that reported it
Diag(id, t) ==
    [id |-> id, tok |-> t, var |-> Str(t),
     by |-> [varId |-> 0, alloc |-> FALSE, strncpy_ |-> FALSE,
             memset_nonzero |-> FALSE],
     from |-> "scope"]

ReportedBy(d, c, f) == [d EXCEPT !.by = c, !.from = f]

uninitvarError(t) == Diag("uninitvar", t)
uninitdataError(t) == Diag("uninitdata", t)
uninitstringError(t) == Diag("uninitstring", t)

----------------------------------------------------------------------------
(* Execution-path framework primitives (lib/executionpath.cpp) *)

\* ExecutionPath::bailOutVar: remove every check of the variable id
bailOutVar(cs, varid) ==
    IF varid = 0 THEN cs ELSE SelectSeq(cs, LAMBDA c : c.varId # varid)

\* ExecutionPath::bailOut: remove every check
bailOut(cs) == <<>>

RemoveAt(cs, k) == SubSeq(cs, 1, k - 1) \o SubSeq(cs, k + 1, Len(cs))

----------------------------------------------------------------------------
(* class UninitVar: the per-variable tracker and its static helpers.       *)
(* A parse step carries st = [checks, diags, ret]: the list of checks, the *)
(* diagnostics reported by this call so far, and the token parse() has     *)
(* returned (0 while it has not returned).                                 *)

\* the startup check of executionPaths(): var(0), varId 0
StartCheck ==
    [varId |-> 0, alloc |-> FALSE, strncpy_ |-> FALSE, memset_nonzero |-> FALSE]

\* the internal constructor: a new check for variable v
NewCheck(v) ==
    [varId |-> v, alloc |-> FALSE, strncpy_ |-> FALSE, memset_nonzero |-> FALSE]

isPointer(c) == c.varId # 0 /\ Variable(c.varId).isPointer
isArray(c) == c.varId # 0 /\ Variable(c.varId).isArray

Report(st, d) == [st EXCEPT !.diags = Append(@, d)]
Return(st, t) == [st EXCEPT !.ret = t]
SetChecks(st, cs) == [st EXCEPT !.checks = cs]

FirstOf(cs, varid) ==
    IF \E k \in 1..Len(cs) : cs[k].varId = varid
    THEN Min({k \in 1..Len(cs) : cs[k].varId = varid}) ELSE 0

\* alloc_pointer that leaves the checks as they are
alloc_pointer_Ignored(cs, varid) == cs

\* alloc_pointer that sets alloc whatever the variable is
alloc_pointer_AnyVariable(cs, varid) ==
    LET k == FirstOf(cs, varid)
    IN  IF k = 0 THEN cs ELSE [cs EXCEPT ![k].alloc = TRUE]

\* alloc_pointer: p = malloc(10);
alloc_pointer(cs, varid) ==
    LET k == FirstOf(cs, varid)
    IN  IF k = 0 THEN cs
        ELSE IF isPointer(cs[k]) /\ ~isArray(cs[k])
             THEN [cs EXCEPT ![k].alloc = TRUE]
             ELSE bailOutVar(cs, varid)

\* use() whose mem.. mode passes over a memset check as well
UseExempt_MemsetToo(c, mode) ==
    \/ mode = 0 /\ (isArray(c) \/ (isPointer(c) /\ c.alloc))
    \/ mode = 2 /\ (c.strncpy_ \/ c.memset_nonzero)
    \/ mode = 3 /\ (~isPointer(c) \/ isArray(c))
    \/ mode = 4 /\ (~isPointer(c) \/ isArray(c) \/ c.alloc)
    \/ mode = 5 /\ (~isArray(c) /\ ~isPointer(c))

\* the modes of use() in which a check is passed over without an error
UseExempt(c, mode) ==
    \/ mode = 0 /\ (isArray(c) \/ (isPointer(c) /\ c.alloc))
    \/ mode = 2 /\ c.strncpy_
    \/ mode = 3 /\ (~isPointer(c) \/ isArray(c))
    \/ mode = 4 /\ (~isPointer(c) \/ isArray(c) \/ c.alloc)
    \/ mode = 5 /\ (~isArray(c) /\ ~isPointer(c))

\* use() that looks at the pointer before it looks at alloc
UseError_AnyPointer(c, t) ==
    IF c.strncpy_ \/ c.memset_nonzero THEN uninitstringError(t)
    ELSE IF isPointer(c) /\ ~isArray(c) THEN uninitdataError(t)
    ELSE uninitvarError(t)

\* the error use() reports for a check
UseError(c, t) ==
    IF c.strncpy_ \/ c.memset_nonzero THEN uninitstringError(t)
    ELSE IF isPointer(c) /\ ~isArray(c) /\ c.alloc THEN uninitdataError(t)
    ELSE uninitvarError(t)

\* use(checks, tok, mode): [found, d]
use(cs, t, mode) ==
    LET varid == VarIdAt(t)
        hits == {k \in 1..Len(cs) :
                    cs[k].varId = varid /\ ~UseExempt(cs[k], mode)}
    IN  IF varid = 0 \/ hits = {} THEN [found |-> FALSE, d |-> <<>>]
        ELSE [found |-> TRUE,
              d |-> ReportedBy(UseError(cs[Min(hits)], t), cs[Min(hits)],
                               "use")]

\* a call of use() whose result is only reported
UseSt(st, t, mode) ==
    LET u == use(st.checks, t, mode)
    IN  IF u.found THEN Report(st, u.d) ELSE st

use_array(st, t) == UseSt(st, t, 1)
use_array_mem(st, t) == UseSt(st, t, 2)
use_pointer(st, t) == UseSt(st, t, 3)
\* use_dead_pointer that reports nothing
use_dead_pointer_Silent(st, t) == st
use_dead_pointer(st, t) == UseSt(st, t, 4)
use_array_or_pointer_data(st, t) == UseSt(st, t, 5)

\* init_pointer: *p = 0;
RECURSIVE init_pointer_loop(_, _, _)
init_pointer_loop(st, k, t) ==
    IF k > Len(st.checks) THEN st
    ELSE IF st.checks[k].varId = VarIdAt(t)
         THEN IF st.checks[k].alloc \/ isArray(st.checks[k])
              THEN init_pointer_loop(SetChecks(st, RemoveAt(st.checks, k)), k, t)
              ELSE init_pointer_loop(use_pointer(st, t), k + 1, t)
    ELSE init_pointer_loop(st, k + 1, t)

\* init_pointer that takes every pointer for allocated: no error
init_pointer_Silent(st, t) ==
    IF VarIdAt(t) = 0 THEN st
    ELSE SetChecks(st, bailOutVar(st.checks, VarIdAt(t)))

init_pointer(st, t) ==
    IF VarIdAt(t) = 0 THEN st ELSE init_pointer_loop(st, 1, t)

\* dealloc_pointer: free(p);
RECURSIVE dealloc_pointer_loop(_, _, _)
dealloc_pointer_loop(st, k, t) ==
    IF k > Len(st.checks) THEN st
    ELSE IF st.checks[k].varId = VarIdAt(t)
         THEN IF isPointer(st.checks[k]) /\ ~isArray(st.checks[k])
                 /\ ~st.checks[k].alloc
              THEN Report(st, ReportedBy(uninitvarError(t), st.checks[k],
                                         "dealloc_pointer"))
              ELSE dealloc_pointer_loop(
                       SetChecks(st, [st.checks EXCEPT ![k].alloc = FALSE]),
                       k + 1, t)
    ELSE dealloc_pointer_loop(st, k + 1, t)

\* dealloc_pointer that leaves alloc set
dealloc_pointer_KeepsAlloc(st, t) ==
    LET k == FirstOf(st.checks, VarIdAt(t))
    IN  IF VarIdAt(t) # 0 /\ k # 0 /\ isPointer(st.checks[k])
           /\ ~isArray(st.checks[k]) /\ ~st.checks[k].alloc
        THEN Report(st, uninitvarError(t))
        ELSE st

\* dealloc_pointer that takes a variable without a check for a dead pointer
dealloc_pointer_Untracked(st, t) ==
    IF VarIdAt(t) # 0 /\ FirstOf(st.checks, VarIdAt(t)) = 0
    THEN Report(st, uninitvarError(t))
    ELSE dealloc_pointer_loop(st, 1, t)

\* dealloc_pointer that resets strncpy_ and memset_nonzero as well
dealloc_pointer_ClearsFlags(st, t) ==
    IF VarIdAt(t) = 0 THEN st
    ELSE LET r == dealloc_pointer_loop(st, 1, t)
         IN  SetChecks(r, [k \in 1..Len(r.checks) |->
                 IF r.checks[k].varId = VarIdAt(t)
                 THEN [r.checks[k] EXCEPT !.strncpy_ = FALSE,
                                          !.memset_nonzero = FALSE]
                 ELSE r.checks[k]])

dealloc_pointer(st, t) ==
    IF VarIdAt(t) = 0 THEN st ELSE dealloc_pointer_loop(st, 1, t)

\* pointer_assignment that looks at the left hand side only
pointer_assignment_LhsOnly(cs, t1, t2) ==
    IF VarIdAt(t1) = 0 \/ VarIdAt(t2) = 0 THEN cs
    ELSE IF \E k \in 1..Len(cs) :
               cs[k].varId = VarIdAt(t1) /\ isPointer(cs[k]) /\ ~isArray(cs[k])
         THEN bailOutVar(cs, VarIdAt(t1)) ELSE cs

\* pointer_assignment: p = x;
pointer_assignment(cs, t1, t2) ==
    LET varid1 == VarIdAt(t1)
        varid2 == VarIdAt(t2)
        cs1 == IF \E k \in 1..Len(cs) :
                      cs[k].varId = varid1 /\ isPointer(cs[k]) /\ ~isArray(cs[k])
               THEN bailOutVar(cs, varid1) ELSE cs
        cs2 == IF \E k \in 1..Len(cs1) :
                      cs1[k].varId = varid2
                      /\ (isPointer(cs1[k]) \/ isArray(cs1[k]))
               THEN bailOutVar(cs1, varid2) ELSE cs1
    IN  IF varid1 = 0 \/ varid2 = 0 THEN cs ELSE cs2

\* init_strncpy
init_strncpy(cs, t) ==
    IF VarIdAt(t) = 0 THEN cs
    ELSE [k \in 1..Len(cs) |->
            IF cs[k].varId = VarIdAt(t)
            THEN [cs[k] EXCEPT !.strncpy_ = TRUE] ELSE cs[k]]

\* init_memset_nonzero
init_memset_nonzero(cs, t) ==
    IF VarIdAt(t) = 0 THEN cs
    ELSE [k \in 1..Len(cs) |->
            IF cs[k].varId = VarIdAt(t)
            THEN [cs[k] EXCEPT !.memset_nonzero = TRUE] ELSE cs[k]]

\* parserhs: the chain  . member  /  [ index ]  after the variable at t
RECURSIVE rhsChainEnd(_)
rhsChainEnd(t3) ==
    IF Str(t3 + 1) = "." /\ isName(t3 + 2) THEN rhsChainEnd(t3 + 2)
    ELSE IF Str(t3 + 1) = "[" THEN
        (IF LinkAt(t3 + 1) = 0 THEN 0 ELSE rhsChainEnd(LinkAt(t3 + 1)))
    ELSE t3

\* parserhs: variable usages in a right hand side / index
RECURSIVE parserhs_loop(_, _)
parserhs_loop(st, j) ==
    IF j = 0 THEN st
    ELSE IF Str(j) \in {";", ")", "="} THEN st
    ELSE IF isName(j) /\ Str(j + 1) = "(" THEN st
    ELSE IF /\ VarIdAt(j) # 0
            /\ Str(j - 1) \notin {"&", "::"}
            /\ ~(Str(j - 2) = "&" /\ Str(j - 1) = "(")
            /\ Str(j + 1) # "="
         THEN IF /\ Str(j + 1) \in {".", "["}
                 /\ rhsChainEnd(j) # 0
                 /\ Str(rhsChainEnd(j) + 1) = "="
              THEN parserhs_loop(st, Next1(j))
              ELSE LET u == IF Str(j - 1) = "*" \/ Str(j + 1) = "["
                            THEN use(st.checks, j, 5)
                            ELSE use(st.checks, j, 0)
                       st1 == IF u.found
                              THEN SetChecks(Report(st, u.d),
                                             bailOutVar(st.checks, VarIdAt(j)))
                              ELSE st
                   IN  parserhs_loop(st1, Next1(j))
    ELSE parserhs_loop(st, Next1(j))

parserhs(st, tok2) == parserhs_loop(st, Next1(tok2))

----------------------------------------------------------------------------
(* CheckNullPointer::parseFunctionCall (lib/checknullpointer.cpp): the     *)
(* arguments a library call dereferences.  value = 1 asks for the          *)
(* arguments whose data is read, value = 0 for those that must be valid    *)
(* pointers.                                                               *)

\* Token::nextArgument: the token after the next top-level comma
RECURSIVE nextArgument(_)
nextArgument(t) ==
    IF t = 0 \/ Str(t) \in {")", ";"} THEN 0
    ELSE IF Str(t) = "," THEN Next1(t)
    ELSE IF Str(t) \in {"(", "[", "{"} THEN
        (IF LinkAt(t) = 0 THEN 0 ELSE nextArgument(Next1(LinkAt(t))))
    ELSE nextArgument(Next1(t))

\* functions that read the data of their first / second argument
DerefFirst == {"strlen", "fclose", "strcat", "strcmp"}
DerefSecond == {"strncpy", "strcpy", "memcpy", "strcat", "strcmp"}
\* functions whose first argument must be a valid pointer, data unread
PointerFirst == {"strncpy", "strcpy", "memset", "memcpy"}

\* the %s / %n arguments of a printf format
RECURSIVE formatArgs(_, _, _, _)
formatArgs(cs, i, percent, arg) ==
    IF i > Len(cs) \/ arg = 0 THEN <<>>
    ELSE IF cs[i] = "%" THEN formatArgs(cs, i + 1, ~percent, arg)
    ELSE IF percent
         THEN (IF cs[i] \in {"s", "n"} /\ VarIdAt(arg) # 0
                  /\ Str(arg + 1) \in {",", ")"}
               THEN <<arg>> ELSE <<>>)
              \o formatArgs(cs, i + 1, FALSE, nextArgument(arg))
    ELSE formatArgs(cs, i + 1, FALSE, arg)

parseFunctionCall(t, value) ==
    LET first == t + 2
        second == nextArgument(first)
        par1 == IF /\ VarIdAt(first) # 0 /\ Str(first + 1) \in {",", ")"}
                   /\ \/ Str(t) \in DerefFirst
                      \/ value = 0 /\ Str(t) \in PointerFirst
                THEN <<first>> ELSE <<>>
        par2 == IF /\ second # 0 /\ VarIdAt(second) # 0
                   /\ Str(second + 1) \in {",", ")"}
                   /\ Str(t) \in DerefSecond
                THEN <<second>> ELSE <<>>
        fmt == IF Str(t) = "printf" /\ isStr(first)
               THEN formatArgs(StrChars(Str(first)), 1, FALSE, second)
               ELSE <<>>
    IN  IF Str(t + 2) = ")" \/ At(t + 2) = 0 THEN <<>>
        ELSE par1 \o par2 \o fmt

----------------------------------------------------------------------------
(* UninitVar::parse, block by block in source order.  Each block leaves    *)
(* st alone once parse() has returned (st.ret # 0).                        *)

\* the token after the last ] of the declaration's dimensions
RECURSIVE declEnd(_)
declEnd(e) ==
    IF LinkAt(e) # 0 THEN declEnd(LinkAt(e) + 1) ELSE e

\* variables of the same name in the enclosing scopes
sameNameInParents(v) ==
    {w \in VarIds : w # v /\ Variable(w).name = Variable(v).name}

RECURSIVE bailOutVars(_, _)
bailOutVars(cs, ids) ==
    IF ids = {} THEN cs
    ELSE LET w == CHOOSE w \in ids : TRUE
         IN  bailOutVars(bailOutVar(cs, w), ids \ {w})

\* is one of the type tokens a standard type?
declStdType(v) ==
    \E i \in typeStartToken(v)..(nameToken(v) - 1) : isStandardType(i)

\* lines 401-437: variable declaration creates the tracker
parseDeclaration(st, t) ==
    LET v == VarIdAt(t)
        var2 == Variable(v)
    IN  IF /\ st.ret = 0
           /\ v # 0 /\ isName(t) /\ Str(t + 1) \in {"[", ";"}
           /\ nameToken(v) = t
           /\ ~var2.isStatic /\ ~var2.isExtern /\ ~var2.isConst
        THEN IF LinkAt(t + 1) # 0 /\ Str(declEnd(t + 1)) # ";"
             THEN Return(st, t)
             ELSE LET cs1 == bailOutVars(st.checks, sameNameInParents(v))
                      track ==
                          \/ var2.isPointer
                          \/ /\ Str(typeEndToken(v)) # ">"
                             /\ declStdType(v)
                             /\ \/ ~var2.isArray
                                \/ Str(LinkAt(nameToken(v) + 1) + 1) = ";"
                  IN  Return(SetChecks(st, IF track
                                           THEN Append(cs1, NewCheck(v))
                                           ELSE cs1), t)
        ELSE st

\* lines 442-453: assignment or address-of in the return statement?
RECURSIVE returnScan(_, _)
returnScan(cs, j) ==
    IF j = 0 \/ Str(j) = ";" THEN [assignment |-> FALSE, checks |-> cs]
    ELSE IF \/ Str(j) = "="
            \/ ~isC /\ Str(j) = ">>"
            \/ Str(j) \in {"(", ","} /\ Str(j + 1) = "&"
         THEN [assignment |-> TRUE, checks |-> cs]
    ELSE IF /\ Str(j) \in {"(", ","}
            /\ \/ Str(j + 1) = "&" /\ isName(j + 2) /\ Str(j + 3) \in {",", ")"}
               \/ isName(j + 1) /\ Str(j + 2) \in {",", ")"}
         THEN LET j2 == IF isName(j + 1) THEN j + 1 ELSE j + 2
              IN  returnScan(bailOutVar(cs, VarIdAt(j2)), Next1(j2))
    ELSE returnScan(cs, Next1(j))

\* lines 455-463: every variable of the return expression is used
RECURSIVE returnUse(_, _)
returnUse(st, j) ==
    IF j = 0 \/ Str(j) = ";" THEN st
    ELSE IF isName(j) /\ Str(j + 1) = "("
         THEN (IF LinkAt(j + 1) = 0 THEN st
               ELSE returnUse(st, Next1(LinkAt(j + 1))))
    ELSE IF VarIdAt(j) # 0 THEN returnUse(UseSt(st, j, 0), Next1(j))
    ELSE returnUse(st, Next1(j))

\* lines 439-464: the return statement
parseReturn(st, t) ==
    IF st.ret = 0 /\ Str(t) = "return"
    THEN LET r == returnScan(st.checks, Next1(t))
             st1 == SetChecks(st, r.checks)
         IN  IF r.assignment THEN st1 ELSE returnUse(st1, Next1(t))
    ELSE st

\* skip  )  tokens
RECURSIVE skipClosePar(_)
skipClosePar(j) ==
    IF j # 0 /\ Str(j) = ")" THEN skipClosePar(Next1(j)) ELSE j

\* lines 468-481: variable passed as function parameter
parseVarParameter(st, t) ==
    IF /\ st.ret = 0 /\ VarIdAt(t) # 0
       /\ Str(t - 1) \in {"(", ","} /\ isName(t)
       /\ Str(t + 1) \in {"+", "-", ",", ")"}
    THEN LET tok2 == skipClosePar(Next1(t))
         IN  IF Str(t - 1) = "(" /\ Str(t + 1) = ")" /\ tok2 # 0 /\ Str(tok2) = "="
             THEN Return(SetChecks(st, bailOutVar(st.checks, VarIdAt(t))), t)
             ELSE IF Str(t - 2) # ">" \/ LinkAt(t - 2) = 0
                  THEN Return(UseSt(st, t, 0), t)
                  ELSE Return(st, t)
    ELSE st

\* lines 484-502: the variable is used
parseVarUsed(st, t) ==
    IF /\ st.ret = 0 /\ VarIdAt(t) # 0
       /\ Str(t - 1) \in {"[", "(", ",", "+", "-", "*", "/", "|", "="}
       /\ isName(t)
       /\ (Str(t + 1) \in {"]", ")", ",", ";"} \/ isOp(t + 1))
    THEN LET k == FirstOf(st.checks, VarIdAt(t))
             cs1 == IF k # 0 /\ isArray(st.checks[k])
                    THEN bailOutVar(st.checks, VarIdAt(t)) ELSE st.checks
             st1 == SetChecks(st, cs1)
         IN  IF Str(t - 3) = "&" /\ isName(t - 2) /\ Str(t - 1) = "="
             THEN Return(SetChecks(st1, bailOutVar(cs1, VarIdAt(t))), t)
             ELSE Return(UseSt(st1, t, 0), t)
    ELSE st

\* lines 504-507: ++ / -- next to the variable
parseVarIncDec(st, t) ==
    IF st.ret = 0 /\ VarIdAt(t) # 0 /\ (isIncDec(t - 1) \/ isIncDec(t + 1))
    THEN Return(UseSt(st, t, 0), t)
    ELSE st

\* line 519: the ] that ends the last of the dimensions  ] [ .. ] [ .. ]
RECURSIVE lastDim(_)
lastDim(tok3) ==
    IF tok3 # 0 /\ Str(tok3) = "]" /\ Str(tok3 + 1) = "[" /\ LinkAt(tok3 + 1) # 0
    THEN lastDim(LinkAt(tok3 + 1)) ELSE tok3

\* lines 540-542: pointer aliasing  p = x ;
parseAliasing(st, t) ==
    IF isName(t + 2) /\ Str(t + 3) = ";"
    THEN SetChecks(st, pointer_assignment(st.checks, t, t + 2))
    ELSE st

\* lines 509-543: statement that starts with the variable
parseVarStatement(st, t) ==
    IF /\ st.ret = 0 /\ VarIdAt(t) # 0
       /\ Str(t - 1) \in {";", "{", "}"} /\ isName(t)
       /\ Str(t + 1) \in {"=", "[", "."}
    THEN IF Str(t + 1) = "."
         THEN IF use(st.checks, t, 4).found
              THEN Return(use_dead_pointer(st, t), t)
              ELSE parseAliasing(st, t)
         ELSE IF Str(t + 1) = "["
              THEN LET tok3 == lastDim(LinkAt(t + 1))
                   IN  IF tok3 # 0 /\ Str(tok3) = "]" /\ Str(tok3 + 1) = ">>"
                       THEN Return(st, t)
                       ELSE IF tok3 # 0 /\ Str(tok3) = "]" /\ Str(tok3 + 1) = "="
                       THEN IF use(st.checks, t, 4).found
                            THEN Return(use_dead_pointer(st, t), t)
                            ELSE parseAliasing(
                                     parserhs(parserhs(st, t + 1), tok3 + 1), t)
                       ELSE parseAliasing(parserhs(st, t + 1), t)
              ELSE parseAliasing(parserhs(st, t + 1), t)
    ELSE st

\* lines 545-547: the variable is called
parseVarCall(st, t) ==
    IF st.ret = 0 /\ VarIdAt(t) # 0 /\ Str(t + 1) = "("
    THEN use_pointer(st, t)
    ELSE st

\* lines 553-560: is the pointer dereferenced in the right hand side?
RECURSIVE usedInRhs(_, _)
usedInRhs(j, varid) ==
    IF j = 0 THEN FALSE
    ELSE IF Str(j) \in {",", ";", "=", "("} THEN FALSE
    ELSE IF Str(j) = "*" /\ At(j + 1) # 0 /\ VarIdAt(j + 1) = varid THEN TRUE
    ELSE usedInRhs(Next1(j), varid)

\* lines 549-569: statement that starts with  * var
parseDerefStatement(st, t) ==
    IF /\ st.ret = 0 /\ VarIdAt(t) # 0
       /\ Str(t - 2) \in {";", "{", "}"} /\ Str(t - 1) = "*"
    THEN IF Str(t + 1) = "="
         THEN IF usedInRhs(At(t + 2), VarIdAt(t))
              THEN Return(use_pointer(st, t), t)
              ELSE Return(init_pointer(st, t), t)
         ELSE Return(use_pointer(st, t), t)
    ELSE st

\* lines 571-582: allocation, or another assignment
parseVarAssign(st, t) ==
    IF st.ret = 0 /\ VarIdAt(t) # 0
    THEN IF \/ Str(t + 1) = "=" /\ Str(t + 2) \in {"malloc", "kmalloc"}
            \/ /\ Str(t + 1) = "=" /\ Str(t + 2) = "new"
               /\ Str(t + 3) = "char" /\ Str(t + 4) = "["
         THEN LET st1 == SetChecks(st, alloc_pointer(st.checks, VarIdAt(t)))
              IN  IF Str(t + 3) = "(" THEN Return(st1, t + 3) ELSE st1
         ELSE IF (~isC /\ Str(t - 1) \in {"<<", ">>"}) \/ Str(t + 1) = "="
              THEN Return(SetChecks(st, bailOutVar(st.checks, VarIdAt(t))), t)
              ELSE st
    ELSE st

\* lines 584-590: var [ .. ] =
parseVarIndexAssign(st, t) ==
    IF /\ st.ret = 0 /\ VarIdAt(t) # 0 /\ Str(t + 1) = "["
       /\ LinkAt(t + 1) # 0 /\ Str(LinkAt(t + 1) + 1) = "="
    THEN Return(SetChecks(st, bailOutVar(st.checks, VarIdAt(t))), t)
    ELSE st

\* lines 592-596: delete var / delete [ ] var
parseVarDelete(st, t) ==
    IF /\ st.ret = 0 /\ VarIdAt(t) # 0
       /\ \/ Str(t - 1) = "delete"
          \/ Str(t - 3) = "delete" /\ Str(t - 2) = "[" /\ Str(t - 1) = "]"
    THEN Return(dealloc_pointer(st, t), t)
    ELSE st

\* lines 466-597: the token is a variable
parseVariable(st, t) ==
    parseVarDelete(parseVarIndexAssign(parseVarAssign(parseDerefStatement(
        parseVarCall(parseVarStatement(parseVarIncDec(parseVarUsed(
            parseVarParameter(st, t), t), t), t), t), t), t), t), t)

\* std::string::compare(0, 3, "mem") == 0 / compare(0, 4, "strn") == 0
startsWithMem(n) == n \in {"memset", "memcpy", "memchr", "memcmp", "memmove"}
startsWithStrn(n) == n \in {"strncpy", "strncat", "strncmp"}

\* lines 616-632: the arguments whose data the call reads
RECURSIVE callUsage1(_, _, _, _)
callUsage1(st, t, var1, k) ==
    IF k > Len(var1) THEN st
    ELSE LET it == var1[k]
             firstPar == (it = t + 2)
             st1 == IF startsWithMem(Str(t)) THEN use_array_mem(st, it)
                    ELSE IF ~firstPar /\ startsWithStrn(Str(t))
                         THEN use_array_mem(st, it)
                    ELSE use_array(st, it)
         IN  callUsage1(use_dead_pointer(st1, it), t, var1, k + 1)

\* lines 637-640: the arguments that must be valid pointers
RECURSIVE callUsage2(_, _, _, _)
callUsage2(st, var1, var2, k) ==
    IF k > Len(var2) THEN st
    ELSE IF var2[k] \in Range(var1) THEN callUsage2(st, var1, var2, k + 1)
    ELSE callUsage2(use_dead_pointer(st, var2[k]), var1, var2, k + 1)

\* lines 612-641
callUsage(st, t) ==
    LET var1 == parseFunctionCall(t, 1)
        var2 == parseFunctionCall(t, 0)
    IN  callUsage2(callUsage1(st, t, var1, 1), var1, var2, 1)

\* line 649 with > for >= , and with the comparison turned round
strncpyUnterminated_Strict(len, sz) == sz >= 0 /\ len > sz

strncpyUnterminated_Inverted(len, sz) == sz >= 0 /\ len <= sz

\* line 649: does the count leave the copy without a terminating zero?
strncpyUnterminated(len, sz) == sz >= 0 /\ len >= sz

\* lines 643-658: strncpy doesn't null-terminate first parameter
parseStrncpy(st, t) ==
    IF /\ st.ret = 0
       /\ Str(t) = "strncpy" /\ Str(t + 1) = "(" /\ isName(t + 2)
       /\ Str(t + 3) = ","
    THEN IF isStr(t + 4) /\ Str(t + 5) = ","
         THEN IF /\ isNumber(t + 6) /\ Str(t + 7) = ")"
                 /\ strncpyUnterminated(getStrLength(Str(t + 4)),
                                        toLongNumber(Str(t + 6)))
              THEN Return(SetChecks(st, init_strncpy(st.checks, t + 2)),
                          LinkAt(t + 1))
              ELSE st
         ELSE Return(SetChecks(st, init_strncpy(st.checks, t + 2)),
                     LinkAt(t + 1))
    ELSE st

\* lines 660-664: memset with a value that is not 0
parseMemset(st, t) ==
    IF /\ st.ret = 0
       /\ Str(t) = "memset" /\ Str(t + 1) = "(" /\ isName(t + 2)
       /\ Str(t + 3) = "," /\ At(t + 4) # 0 /\ Str(t + 4) # "0"
       /\ Str(t + 5) = "," /\ isNumber(t + 6) /\ Str(t + 7) = ")"
    THEN Return(SetChecks(st, init_memset_nonzero(st.checks, t + 2)),
                LinkAt(t + 1))
    ELSE st

\* parse() without the rule for assembler code
parseAsm_Ignored(st, t) == st

\* lines 666-669: assembler code
parseAsm(st, t) ==
    IF /\ st.ret = 0
       /\ Str(t) = "asm" /\ Str(t + 1) = "(" /\ isStr(t + 2) /\ Str(t + 3) = ")"
    THEN Return(SetChecks(st, bailOut(st.checks)), t)
    ELSE st

\* lines 700-708: the name token of the call the argument at j belongs to
RECURSIVE findFunctionCall(_)
findFunctionCall(j) ==
    IF j = 0 THEN 0
    ELSE IF Str(j) = "(" THEN At(j - 1)
    ELSE IF Str(j) = ")" THEN
        (IF LinkAt(j) = 0 THEN 0 ELSE findFunctionCall(At(LinkAt(j) - 1)))
    ELSE findFunctionCall(At(j - 1))

\* lines 697-731: one variable among the arguments; acc = [st, bailouts]
callArgument(acc, j) ==
    LET fc == findFunctionCall(At(j - 1))
        dead == /\ \/ Str(j - 2) \in {"(", ","} /\ Str(j - 1) = "*"
                   \/ Str(j + 1) = "." /\ isName(j + 2)
                /\ fc # 0 /\ isName(fc) /\ ~isUpperCaseName(fc)
                /\ use(acc.st.checks, j, 4).found
        st1 == IF dead
               THEN SetChecks(use_dead_pointer(acc.st, j),
                              bailOutVar(acc.st.checks, VarIdAt(j)))
               ELSE acc.st
        b1 == IF Str(j - 1) \in {"(", ","} /\ isName(j)
                 /\ Str(j + 1) \in {",", ")"}
              THEN {VarIdAt(j)} ELSE {}
        k == FirstOf(st1.checks, VarIdAt(j))
        b2 == IF /\ Str(j - 1) \in {",", "("} /\ isName(j)
                 /\ Str(j + 1) \in {"+", "-"}
                 /\ k # 0
                 /\ (isArray(st1.checks[k])
                     \/ (isPointer(st1.checks[k]) /\ st1.checks[k].alloc))
              THEN {VarIdAt(j)} ELSE {}
    IN  [st |-> st1, bailouts |-> acc.bailouts \cup b1 \cup b2]

\* lines 672-732: is the variable passed as a parameter to some function?
RECURSIVE callArguments(_, _, _)
callArguments(acc, j, parlevel) ==
    IF j = 0 THEN acc
    ELSE IF Str(j) = "(" THEN callArguments(acc, Next1(j), parlevel + 1)
    ELSE IF Str(j) = ")"
         THEN IF parlevel <= 1 THEN acc
              ELSE callArguments(acc, Next1(j), parlevel - 1)
    ELSE IF Str(j) \in {"sizeof", "typeof"} /\ Str(j + 1) = "("
         THEN IF LinkAt(j + 1) = 0 THEN acc
              ELSE callArguments(acc, Next1(LinkAt(j + 1)), parlevel)
    ELSE IF /\ isName(j) /\ VarIdAt(j) = 0 /\ Str(j) # "delete"
            /\ Str(j + 1) = "(" /\ isUpperCaseName(j)
         THEN IF LinkAt(j + 1) = 0 THEN acc
              ELSE callArguments(acc, Next1(LinkAt(j + 1)), parlevel)
    ELSE IF VarIdAt(j) # 0
         THEN callArguments(callArgument(acc, j), Next1(j), parlevel)
    ELSE callArguments(acc, Next1(j), parlevel)

\* lines 671-735
parseCallArguments(st, t) ==
    IF st.ret = 0
    THEN LET acc == callArguments([st |-> st, bailouts |-> {}], Next1(t), 0)
         IN  SetChecks(acc.st, bailOutVars(acc.st.checks, acc.bailouts))
    ELSE st

\* lines 605-610: free / realloc
parseDealloc(st, t) ==
    IF /\ st.ret = 0
       /\ \/ /\ Str(t) \in {"free", "kfree", "fclose"} /\ Str(t + 1) = "("
             /\ isName(t + 2) /\ Str(t + 3) = ")"
          \/ Str(t) = "realloc" /\ Str(t + 1) = "(" /\ isName(t + 2)
    THEN Return(dealloc_pointer(st, t + 2), t + 3)
    ELSE st

\* lines 602-603: sizeof / typeof doesn't dereference
parseSizeof(st, t) ==
    IF st.ret = 0 /\ Str(t) \in {"sizeof", "typeof"} /\ Str(t + 1) = "("
    THEN Return(st, LinkAt(t + 1))
    ELSE st

\* line 599 without the registry: every call is looked into
isUnknownCall_Any(t, registry) == isName(t) /\ Str(t + 1) = "("

\* line 599: only functions outside the registry are looked into
isUnknownCall(t, registry) ==
    isName(t) /\ Str(t + 1) = "(" /\ Str(t) \notin registry

\* lines 599-736: function call
parseFunction(st, t) ==
    IF st.ret = 0 /\ isUnknownCall(t, uvarFunctions)
    THEN LET st1 == parseDealloc(parseSizeof(st, t), t)
             st2 == IF st1.ret = 0 THEN callUsage(st1, t) ELSE st1
         IN  parseCallArguments(
                 parseAsm(parseMemset(parseStrncpy(st2, t), t), t), t)
    ELSE st

\* lines 743-748: every variable among the arguments is bailed out
RECURSIVE bailOutRange(_, _, _)
bailOutRange(cs, j, end2) ==
    IF j = 0 \/ j = end2 THEN cs
    ELSE bailOutRange(bailOutVar(cs, VarIdAt(j)), Next1(j), end2)

\* lines 738-749: function call via function pointer
parseFunctionPointerCall(st, t) ==
    IF /\ st.ret = 0 /\ Str(t) = "(" /\ LinkAt(t) # 0
       /\ \/ /\ Str(t + 1) = "*" /\ isName(t + 2) /\ Str(t + 3) = ")"
             /\ Str(t + 4) = "("
          \/ /\ \/ Str(t + 1) = "*" /\ isName(t + 2) /\ Str(t + 3) \in {".", "::"}
                \/ isName(t + 1) /\ Str(t + 2) \in {".", "::"}
             /\ Str(LinkAt(t) - 2) \in {".", "::"} /\ isName(LinkAt(t) - 1)
             /\ Str(LinkAt(t) + 1) = "("
    THEN LET tok2 == LinkAt(t) + 1
         IN  SetChecks(st, bailOutRange(st.checks, tok2, LinkAt(tok2)))
    ELSE st

\* lines 751-758: return var ;  /  return var [
parseReturnVar(st, t) ==
    IF st.ret = 0 /\ Str(t) = "return" /\ isName(t + 1)
    THEN IF Str(t + 2) = ";" THEN UseSt(st, t + 1, 0)
         ELSE IF Str(t + 2) = "[" THEN use_array_or_pointer_data(st, t + 1)
         ELSE st
    ELSE st

\* lines 761-781: the variable is the first token of a right hand side
parseVarAfterAssign(st, t) ==
    IF st.ret = 0 /\ VarIdAt(t) # 0 /\ Str(t - 1) = "="
    THEN IF Str(t - 3) = "&" /\ isName(t - 2)
         THEN Return(SetChecks(st, bailOutVar(st.checks, VarIdAt(t))), t)
         ELSE IF ~(Str(t - 3) = "." /\ isName(t - 2))
              THEN IF ~(Str(t - 3) \in {";", "{", "}"} /\ isName(t - 2))
                   THEN Return(UseSt(st, t, 0), t)
                   ELSE IF VarIdAt(t - 2) # 0
                        THEN Return(UseSt(st, t, 0), t)
                        ELSE st
              ELSE st
    ELSE st

\* lines 783-800: member, index, dereference, address
parseVarRest(st, t) ==
    IF st.ret = 0 /\ VarIdAt(t) # 0
    THEN IF Str(t + 1) = "."
         THEN Return(SetChecks(st, bailOutVar(st.checks, VarIdAt(t))), t)
         ELSE IF Str(t + 1) = "["
         THEN Return(SetChecks(st, bailOutVar(st.checks, VarIdAt(t))), t)
         ELSE IF Str(t - 2) \in {",", "(", "="} /\ Str(t - 1) = "*"
         THEN Return(use_pointer(st, t), t)
         ELSE IF Str(t - 1) = "&"
         THEN SetChecks(st, bailOutVar(st.checks, VarIdAt(t)))
         ELSE st
    ELSE st

\* lines 813-818: the variables of the setup clause
RECURSIVE forSetup(_, _, _)
forSetup(j, end, ids) ==
    IF j = end \/ j = 0 THEN [tok2 |-> j, ids |-> ids]
    ELSE IF Str(j) = ";" THEN [tok2 |-> j, ids |-> ids]
    ELSE forSetup(Next1(j), end,
                  IF VarIdAt(j) # 0 THEN ids \cup {VarIdAt(j)} ELSE ids)

\* lines 830-832: the ; before the step clause
RECURSIVE forStep(_)
forStep(j) ==
    IF j # 0 /\ Str(j) # ";" THEN forStep(Next1(j)) ELSE j

\* lines 845-850: is the variable seen in the loop body?
RECURSIVE seenInBody(_, _, _)
seenInBody(j, end, varid) ==
    IF j = 0 \/ j = end THEN FALSE
    ELSE IF VarIdAt(j) = varid THEN TRUE
    ELSE seenInBody(Next1(j), end, varid)

\* lines 803-864: for
parseFor(st, t) ==
    IF /\ st.ret = 0 /\ Str(t) \in {";", "{", "}"}
       /\ Str(t + 1) = "for" /\ Str(t + 2) = "("
    THEN LET su == forSetup(At(t + 3), LinkAt(t), {0})
             tok2 == su.tok2
             st1 == IF /\ Str(tok2) = ";" /\ isName(tok2 + 1)
                       /\ Str(tok2 + 2) \in {"<", "<=", ">=", ">"}
                       /\ isNumber(tok2 + 3) /\ Str(tok2 + 4) = ";"
                       /\ VarIdAt(tok2 + 1) \notin su.ids
                    THEN UseSt(st, tok2 + 1, 0) ELSE st
             s2 == forStep(Next1(tok2))
             pre == /\ Str(s2) = ";" /\ isIncDec(s2 + 1) /\ isName(s2 + 2)
                    /\ Str(s2 + 3) = ")" /\ Str(s2 + 4) = "{"
             post == /\ Str(s2) = ";" /\ isName(s2 + 1) /\ isIncDec(s2 + 2)
                     /\ Str(s2 + 3) = ")" /\ Str(s2 + 4) = "{"
             varid == IF VarIdAt(s2 + 1) # 0 THEN VarIdAt(s2 + 1)
                      ELSE VarIdAt(s2 + 2)
             vartok == IF VarIdAt(s2 + 1) # 0 THEN s2 + 1 ELSE s2 + 2
         IN  IF tok2 = LinkAt(t) THEN Return(st, t)
             ELSE IF /\ s2 # 0 /\ (pre \/ post)
                     /\ varid \notin su.ids
                     /\ ~seenInBody(At(s2 + 5), LinkAt(s2 + 4), varid)
                     /\ varid # 0
                  THEN UseSt(st1, vartok, 0)
                  ELSE st1
    ELSE st

\* line 866: no rule has returned earlier
parseEnd(st, t) == IF st.ret = 0 THEN Return(st, t) ELSE st

\* UninitVar::parse: [checks, diags, ret]
parse(t, cs) ==
    parseEnd(
        parseFor(parseVarRest(parseVarAfterAssign(parseReturnVar(
            parseFunctionPointerCall(parseFunction(parseVariable(
                parseReturn(parseDeclaration(
                    [checks |-> cs, diags |-> <<>>, ret |-> 0], t), t), t), t),
            t), t), t), t), t), t)

----------------------------------------------------------------------------
(* The token lists under analysis *)

\* void main ( ) {  int * p ;  char buf [ 8 ] ;  int x ;  ...  }
\* with `T * p = malloc ( 8 ) ;` as the tokenizer splits it when pInit
FunctionHead == <<"void", "main", "(", ")", "{">>

DeclP(pInit) ==
    <<"int", "*", "p", ";">>
    \o (IF pInit THEN <<"p", "=", "malloc", "(", "8", ")", ";">> ELSE <<>>)
DeclBuf == <<"char", "buf", "[", "8", "]", ";">>
DeclX == <<"int", "x", ";">>

\* the statements of a tracker-pass body
TrackerStmts ==
    { <<"*", "p", "=", "0", ";">>,
      <<"p", "=", "malloc", "(", "8", ")", ";">>,
      <<"free", "(", "p", ")", ";">>,
      <<"strncpy", "(", "buf", ",", "\"hello\"", ",", "5", ")", ";">>,
      <<"strncpy", "(", "buf", ",", "\"hi\"", ",", "8", ")", ";">>,
      <<"strncpy", "(", "p", ",", "\"hello\"", ",", "5", ")", ";">>,
      <<"printf", "(", "\"%s\"", ",", "buf", ")", ";">>,
      <<"g", "(", "p", ")", ";">>,
      <<"asm", "(", "\"nop\"", ")", ";">>,
      <<"x", "=", "*", "p", ";">>,
      <<"return", "p", ";">> }

\* a return statement ends the body: what follows it is never executed
IsReturnStmt(s) == Head(s) = "return"

TrackerBodies ==
    { b \in [1..MaxStmts -> TrackerStmts] :
        \A i \in 1..(MaxStmts - 1) : ~IsReturnStmt(b[i]) }

TrackerProgram(pInit, b) ==
    Tokenize(FunctionHead \o DeclP(pInit) \o DeclBuf \o DeclX
             \o Flatten(b) \o <<"}">>)

\* first token of the body of the function under analysis, main
BodyStart ==
    IF \E i \in 1..NTok : tokens[i].str = "main"
    THEN Min({i \in 1..NTok : tokens[i].str = "main"}) + 4 ELSE 0

----------------------------------------------------------------------------
(* The execution-path pass: CheckUninitVar::executionPaths and the         *)
(* framework's traversal of the function body (checkExecutionPaths)        *)

IdsOf(cs) == {cs[k].varId : k \in 1..Len(cs)} \ {0}

\* executionPaths() with the scan after the pass
executionPathsSteps_PassFirst == <<"paths", "analyse">>

\* lines 1031-1035: executionPaths() scans for the simple functions, then
\* creates the start check and runs the execution-path pass
executionPathsSteps == <<"analyse", "paths">>

\* one run of the analysis: executionPaths(), then check()
Passes == executionPathsSteps \o <<"scope">>

NextPhase(ph) ==
    LET i == Min({k \in 1..Len(Passes) : Passes[k] = ph})
    IN  IF i < Len(Passes) THEN Passes[i + 1] ELSE "done"

\* line 1034: the list of checks the pass starts with
checksAt(ph) == IF ph = "paths" THEN <<StartCheck>> ELSE <<>>
posAt(ph) == IF ph = "paths" THEN BodyStart ELSE 0

\* the framework goes on after the token parse() has returned, with the
\* checks parse() has left
PathsGoOn(r) ==
    /\ checks' = r.checks
    /\ diags' = diags \o r.diags
    /\ pos' = Next1(r.ret)
    /\ retired' = retired \cup (IdsOf(checks) \ IdsOf(r.checks))
    /\ trace' = Append(trace, [tok |-> pos, pre |-> checks])

\* the framework hands the next token of the body to parse() and goes on
\* after the token parse() returns
PathsStep ==
    /\ phase = "paths"
    /\ pos # 0 /\ Str(pos) # "}" /\ checks # <<>>
    /\ PathsGoOn(parse(pos, checks))
    /\ UNCHANGED <<useMode, invalidAccess, tokens, isC, jobs, uvarFunctions, phase, run, firstDiags,
                   wvar, stack, started>>

\* the end of the function body, or no check is left
PathsEnd ==
    /\ phase = "paths"
    /\ (pos = 0 \/ Str(pos) = "}" \/ checks = <<>>)
    /\ phase' = NextPhase("paths")
    /\ checks' = <<>>
    /\ wvar' = 1
    /\ UNCHANGED <<useMode, invalidAccess, tokens, isC, jobs, uvarFunctions, run, pos, diags,
                   firstDiags, retired, trace, stack, started>>

InitTracker ==
    /\ tokens \in {TrackerProgram(pInit, b) :
                      pInit \in BOOLEAN, b \in TrackerBodies}
    /\ isC = TRUE
    /\ jobs = 1
    /\ uvarFunctions = {}
    /\ phase = "paths"
    /\ run = 1
    /\ checks = <<StartCheck>>
    /\ pos = BodyStart
    /\ diags = <<>>
    /\ firstDiags = <<>>
    /\ retired = {}
    /\ trace = <<>>
    /\ wvar = 0
    /\ stack = <<>>
    /\ started = {}
    /\ invalidAccess = FALSE
    /\ useMode = 0

NextTracker == PathsStep \/ PathsEnd

SpecTracker == InitTracker /\ [][NextTracker]_vars

----------------------------------------------------------------------------
(* The execution-path pass on allocation, release, aliasing and the        *)
(* occurrences that end the tracking of a variable                         *)

\* number of statements after the declarations in such a body
MaxPointerStmts == 2

DeclQ == <<"int", "*", "q", ";">>

PointerStmts ==
    { <<"p", "=", "malloc", "(", "8", ")", ";">>,
      <<"p", "=", "kmalloc", "(", "8", ")", ";">>,
      <<"p", "=", "new", "char", "[", "8", "]", ";">>,
      <<"x", "=", "malloc", "(", "8", ")", ";">>,
      <<"free", "(", "p", ")", ";">>,
      <<"kfree", "(", "p", ")", ";">>,
      <<"fclose", "(", "p", ")", ";">>,
      <<"realloc", "(", "p", ",", "8", ")", ";">>,
      <<"free", "(", "buf", ")", ";">>,
      <<"free", "(", "x", ")", ";">>,
      <<"*", "p", "=", "0", ";">>,
      <<"*", "buf", "=", "0", ";">>,
      <<"*", "x", "=", "0", ";">>,
      <<"p", "=", "q", ";">>,
      <<"p", "=", "buf", ";">>,
      <<"x", "=", "p", ";">>,
      <<"y", "=", "&", "p", ";">>,
      <<"f", "(", "&", "x", ")", ";">>,
      <<"buf", "[", "0", "]", "=", "1", ";">>,
      <<"p", ".", "m", "=", "1", ";">>,
      <<"p", "[", "0", "]", "=", "1", ";">>,
      <<"x", ".", "m", "=", "1", ";">>,
      <<"return", "&", "x", ";">>,
      <<"y", "<<", "x", ";">>,
      <<"y", ">>", "x", ";">>,
      <<"x", "<<", "1", ";">>,
      <<"strncpy", "(", "buf", ",", "\"hello\"", ",", "5", ")", ";">>,
      <<"strncpy", "(", "buf", ",", "\"hello\"", ",", "6", ")", ";">>,
      <<"strncpy", "(", "buf", ",", "\"hello\"", ",", "8", ")", ";">>,
      <<"strncpy", "(", "buf", ",", "q", ",", "5", ")", ";">> }

\* a return statement ends the body
PointerBodies ==
    { b \in [1..MaxPointerStmts -> PointerStmts] :
        \A i \in 1..(MaxPointerStmts - 1) : ~IsReturnStmt(b[i]) }

PointerProgram(pInit, b) ==
    Tokenize(FunctionHead \o DeclP(pInit) \o DeclQ \o DeclBuf \o DeclX
             \o Flatten(b) \o <<"}">>)

InitPointers ==
    /\ tokens \in {PointerProgram(pInit, b) :
                      pInit \in BOOLEAN,
                      b \in PointerBodies}
    /\ isC \in BOOLEAN
    /\ jobs = 1
    /\ uvarFunctions = {}
    /\ phase = "paths"
    /\ run = 1
    /\ checks = <<StartCheck>>
    /\ pos = BodyStart
    /\ diags = <<>>
    /\ firstDiags = <<>>
    /\ retired = {}
    /\ trace = <<>>
    /\ wvar = 0
    /\ stack = <<>>
    /\ started = {}
    /\ invalidAccess = FALSE
    /\ useMode = 0

SpecPointers == InitPointers /\ [][NextTracker]_vars

----------------------------------------------------------------------------
(* The execution-path pass on the statements that set and reset the flags  *)
(* of a check                                                              *)

\* number of statements after the declarations in such a body
MaxFlagStmts == 3

FlagStmts ==
    { <<"p", "=", "malloc", "(", "8", ")", ";">>,
      <<"x", "=", "malloc", "(", "8", ")", ";">>,
      <<"buf", "=", "malloc", "(", "8", ")", ";">>,
      <<"free", "(", "p", ")", ";">>,
      <<"free", "(", "buf", ")", ";">>,
      <<"strncpy", "(", "buf", ",", "\"hello\"", ",", "5", ")", ";">>,
      <<"strncpy", "(", "p", ",", "\"hello\"", ",", "5", ")", ";">>,
      <<"memset", "(", "buf", ",", "1", ",", "8", ")", ";">>,
      <<"memset", "(", "p", ",", "1", ",", "8", ")", ";">>,
      <<"memset", "(", "buf", ",", "0", ",", "8", ")", ";">>,
      <<"strlen", "(", "buf", ")", ";">>,
      <<"y", "=", "buf", "[", "0", "]", ";">> }

InitFlags ==
    /\ tokens \in {PointerProgram(FALSE, b) :
                      b \in [1..MaxFlagStmts -> FlagStmts]}
    /\ isC \in BOOLEAN
    /\ jobs = 1
    /\ uvarFunctions = {}
    /\ phase = "paths"
    /\ run = 1
    /\ checks = <<StartCheck>>
    /\ pos = BodyStart
    /\ diags = <<>>
    /\ firstDiags = <<>>
    /\ retired = {}
    /\ trace = <<>>
    /\ wvar = 0
    /\ stack = <<>>
    /\ started = {}
    /\ invalidAccess = FALSE
    /\ useMode = 0

SpecFlags == InitFlags /\ [][NextTracker]_vars

----------------------------------------------------------------------------
(* The scalar scope walker: CheckUninitVar::isVariableUsage,               *)
(* checkIfForWhileHead, checkScopeForVariable, checkScope                  *)

\* CheckNullPointer::isPointerDeRef (lib/checknullpointer.cpp)
isPointerDeRef(t) ==
    \/ Str(t - 2) \in {";", "{", "}", "=", "+", "-", "/", "(", ","}
       /\ Str(t - 1) = "*"
    \/ Str(t + 1) = "." /\ isName(t + 2) /\ Str(t - 1) \notin {"&", "&&"}
    \/ Str(t + 1) \in {"[", "("}

\* Tokenizer::IsScopeNoReturn (lib/tokenize.cpp): the scope ends with a call
\* of a function that does not return
IsScopeNoReturn(t) ==
    /\ Str(t - 2) = ")" /\ Str(t - 1) = ";" /\ LinkAt(t - 2) # 0
    /\ Str(LinkAt(t - 2) - 1) \in {"exit", "abort"}

\* lines 1283-1289: back over  )..( , ( and *  before the  &
RECURSIVE backOver(_, _)
backOver(j, what) ==
    IF j # 0 /\ Str(j) = what THEN backOver(At(j - 1), what) ELSE j

\* lines 1293-1298: is there a = before the end of the statement?
RECURSIVE assignFollows(_)
assignFollows(j) ==
    IF j = 0 \/ Str(j) \in {";", "{", "}"} THEN FALSE
    ELSE IF Str(j) = "=" THEN TRUE
    ELSE assignFollows(Next1(j))

\* lines 1281-1300:  *((&var ..expr.. =  assigns the variable
addressAssigned(vartok) ==
    LET a == At(vartok - 2)
        b == IF a # 0 /\ Str(a) = ")"
             THEN (IF LinkAt(a) = 0 THEN 0 ELSE At(LinkAt(a) - 1)) ELSE a
        c == backOver(backOver(b, "("), "*")
    IN  /\ c # 0 /\ Str(c) \in {";", "{", "}"} /\ Str(c + 1) = "*"
        /\ assignFollows(vartok)

\* lines 1328-1332: an operator or ] follows the variable
trailingUsage_None(vartok) == FALSE

trailingUsage(vartok) ==
    \/ isIncDec(vartok + 1) \/ isOp(vartok + 1)
    \/ Str(vartok + 1) = "]"

\* isVariableUsage that takes every occurrence for a read
isVariableUsage_AlwaysRead(vartok, pointer) == TRUE

\* isVariableUsage
isVariableUsage(vartok, pointer) ==
    IF Str(vartok - 1) = "return" THEN TRUE
    ELSE IF /\ (isIncDec(vartok - 1) \/ isOp(vartok - 1))
            /\ Str(vartok - 1) = ">>" /\ ~isC
         THEN FALSE
    ELSE IF /\ (isIncDec(vartok - 1) \/ isOp(vartok - 1))
            /\ Str(vartok - 1) = "&" /\ addressAssigned(vartok)
         THEN FALSE
    ELSE IF /\ (isIncDec(vartok - 1) \/ isOp(vartok - 1))
            /\ \/ Str(vartok - 1) # "&"
               \/ Str(vartok - 2) \notin {"(", ",", "=", "?", ":"}
         THEN TRUE
    ELSE IF /\ pointer /\ isPointerDeRef(vartok)
            /\ ~(\/ isName(vartok - 2) /\ Str(vartok - 1) = "("
                 \/ Str(vartok - 1) = ",")
         THEN TRUE
    ELSE IF ~isC /\ Str(vartok + 1) \in {"<<", ">>"}
         THEN isStandardType(typeStartToken(VarIdAt(vartok)))
    ELSE trailingUsage(vartok)

\* lines 1256-1261: after a read the scan ends, unless the read was passed
\* over with errors suppressed
readStops_Never(suppressErrors) == FALSE

readStops(suppressErrors) == ~suppressErrors

\* line 1265: behind && the errors are suppressed, unless the variable is
\* known to be uninitialized
andSuppresses_Never(isuninit, str) == FALSE

andSuppresses(isuninit, str) == ~isuninit /\ str = "&&"

\* checkIfForWhileHead, from the token t on: [settled, diags, fault]
RECURSIVE headScan(_, _, _, _, _, _)
headScan(t, endpar, v, suppressErrors, isuninit, ds) ==
    IF t = 0 \/ t = endpar
    THEN [settled |-> FALSE, diags |-> ds, fault |-> FALSE]
    ELSE IF VarIdAt(t) = v
         THEN IF isVariableUsage(t, Variable(v).isPointer)
              THEN LET ds1 == IF ~suppressErrors
                              THEN Append(ds, uninitvarError(t)) ELSE ds
                   IN  IF readStops(suppressErrors)
                       THEN [settled |-> TRUE, diags |-> ds1, fault |-> FALSE]
                       ELSE headScan(Next1(t), endpar, v, suppressErrors,
                                     isuninit, ds1)
              ELSE [settled |-> TRUE, diags |-> ds, fault |-> FALSE]
    ELSE LET t1 == IF Str(t) \in {"sizeof", "decltype", "offsetof"}
                      /\ Str(t + 1) = "("
                   THEN LinkAt(t + 1) ELSE t
         IN  IF t1 = 0   \* tok = tok->next()->link() is null; tok->str()
             THEN [settled |-> FALSE, diags |-> ds, fault |-> TRUE]
             ELSE headScan(Next1(t1), endpar, v,
                           suppressErrors \/ andSuppresses(isuninit, Str(t1)),
                           isuninit, ds)

checkIfForWhileHead(startparanthesis, v, suppressErrors, isuninit) ==
    headScan(Next1(startparanthesis), LinkAt(startparanthesis), v,
             suppressErrors, isuninit, <<>>)

\* an invocation of checkScopeForVariable(tok, var, possibleInit)
NewFrame(t, v, hasPI, seed) ==
    [tok |-> t, v |-> v,
     hasPI |-> hasPI,              \* possibleInit is not NULL
     pi |-> FALSE,                 \* *possibleInit
     suppressErrors |-> hasPI /\ seed,
     ret |-> FALSE, number_of_if |-> 0, notzero |-> {},
     pc |-> "scan", val |-> FALSE, initif |-> FALSE,
     possibleInitIf |-> FALSE]

NoCall == [tok |-> 0, hasPI |-> FALSE, seed |-> FALSE]

\* what a piece of the walker's loop body leaves: the frame, the diagnostics
\* reported, and the recursive call it makes (call.tok = 0: none)
Out(f, ds, call) == [f |-> f, diags |-> ds, call |-> call]

RetOut(f, val, ds) == Out([f EXCEPT !.pc = "ret", !.val = val], ds, NoCall)

\* the walker is about to dereference a null Token pointer
FaultOut(f, ds) == Out([f EXCEPT !.pc = "fault"], ds, NoCall)

\* the loop's  tok = tok->next()  after the body was left at the token t
ContOut_Stays(f, t, ds) ==
    IF t = 0 THEN FaultOut(f, ds)
    ELSE Out([f EXCEPT !.pc = "scan", !.tok = t], ds, NoCall)

ContOut(f, t, ds) ==
    IF t = 0 THEN FaultOut(f, ds)
    ELSE Out([f EXCEPT !.pc = "scan", !.tok = Next1(t)], ds, NoCall)
CallOut(f, pc, t, start, hasPI, seed, ds) ==
    Out([f EXCEPT !.pc = pc, !.tok = t], ds,
        [tok |-> start, hasPI |-> hasPI, seed |-> seed])

\* line 1237: the occurrence is reported
reportsUsage_Suppressed(suppressErrors, usage) == usage

reportsUsage(suppressErrors, usage) == ~suppressErrors /\ usage

\* line 1220: a block the walker has no handling for starts at t
unhandledScope_ParenOnly(t) == Str(t) = ")" /\ Str(t + 1) = "{"

unhandledScope(t) ==
    \/ Str(t) = ")" /\ Str(t + 1) = "{"
    \/ isName(t) /\ Str(t + 1) = "{"

\* lines 1219-1243: unhandled scopes, assembler, jumps, the variable is seen
walkTail(f, t, ds) ==
    IF t = 0 THEN FaultOut(f, ds)   \* tok->str() / tok->varId() of a null tok
    ELSE IF unhandledScope(t) THEN RetOut(f, TRUE, ds)
    ELSE IF Str(t) = "asm" /\ Str(t + 1) = "(" THEN RetOut(f, TRUE, ds)
    ELSE LET jump == Str(t) \in {"return", "break", "continue", "throw", "goto"}
             f1 == IF jump THEN [f EXCEPT !.ret = TRUE] ELSE f
         IN  IF ~jump /\ f.ret /\ Str(t) = ";" THEN RetOut(f, TRUE, ds)
             ELSE IF VarIdAt(t) = f.v
                  THEN IF reportsUsage(f.suppressErrors,
                                      isVariableUsage(t, Variable(f.v).isPointer))
                       THEN ContOut(f1, t, Append(ds, uninitvarError(t)))
                       ELSE RetOut(f1, TRUE, ds)
             ELSE ContOut(f1, t, ds)

\* line 1183: Token::findmatch(tok, "& %varid%", end, varid)
RECURSIVE addressTaken(_, _, _)
addressTaken(j, end, v) ==
    IF j = 0 \/ j = end THEN FALSE
    ELSE IF Str(j) = "&" /\ At(j + 1) # 0 /\ VarIdAt(j + 1) = v THEN TRUE
    ELSE addressTaken(Next1(j), end, v)

\* lines 1177-1217:  = { .. } , sizeof, for
walkMiddle(f, t, ds) ==
    IF Str(t) = "=" /\ Str(t + 1) = "{"
    THEN IF addressTaken(At(t + 2), LinkAt(t + 1), f.v)
         THEN RetOut(f, TRUE, ds)
         ELSE ContOut(f, LinkAt(t + 1), ds)
    ELSE LET t1 == IF Str(t) \in {"sizeof", "typeof", "offsetof", "decltype"}
                      /\ Str(t + 1) = "("
                   THEN LinkAt(t + 1) ELSE t
         IN  IF t1 # 0 /\ Str(t1) = "for" /\ Str(t1 + 1) = "("
             THEN IF checkIfForWhileHead(t1 + 1, f.v, TRUE, FALSE).fault
                  THEN FaultOut(f, ds)
                  ELSE IF checkIfForWhileHead(t1 + 1, f.v, TRUE, FALSE).settled
                  THEN RetOut(f, TRUE, ds)
                  ELSE IF LinkAt(t1 + 1) = 0   \* tok->next()->link()->next()
                  THEN FaultOut(f, ds)
                  ELSE IF Str(Next1(LinkAt(t1 + 1))) = "{"
                       THEN CallOut(f, "forBody", t1,
                                    LinkAt(t1 + 1) + 2, TRUE, TRUE, ds)
                       ELSE walkTail(f, t1, ds)
             ELSE walkTail(f, t1, ds)

\* lines 1126-1128: assignment with nonzero constant
noteNotZero(f, t) ==
    IF /\ Str(t - 1) \in {";", "{", "}"} /\ isName(t) /\ Str(t + 1) = "="
       /\ Str(t + 2) = "-" /\ isName(t + 3) /\ Str(t + 4) = ";"
       /\ VarIdAt(t) > 0
    THEN [f EXCEPT !.notzero = @ \cup {VarIdAt(t)}]
    ELSE f

\* lines 1105-1147: one turn of the loop, up to the first recursive call
walkScan(f) ==
    LET t == f.tok
        f1 == noteNotZero(f, t)
        h == checkIfForWhileHead(t + 1, f.v, f.suppressErrors,
                                 f.number_of_if = 0)
        body == Next1(LinkAt(t + 1))
    IN  IF t = 0 THEN RetOut(f, f.ret, <<>>)
        ELSE IF Str(t) = "}"
             THEN LET f2 == IF f.number_of_if > 0 /\ f.hasPI
                            THEN [f EXCEPT !.pi = TRUE] ELSE f
                  IN  IF IsScopeNoReturn(t) THEN RetOut(f2, TRUE, <<>>)
                      ELSE RetOut(f2, f2.ret, <<>>)
        ELSE IF Str(t) = "{" /\ Str(t - 1) \in {";", "{", "}"}
             THEN CallOut(f, "inner", t, Next1(t), f.hasPI, f.pi, <<>>)
        ELSE IF Str(t) = "if" /\ Str(t + 1) = "("
             THEN IF h.fault THEN FaultOut(f1, h.diags)
                  ELSE IF h.settled THEN RetOut(f1, TRUE, h.diags)
                  ELSE IF /\ isName(t + 2) /\ Str(t + 3) = ")"
                          /\ VarIdAt(t + 2) \in f1.notzero
                       THEN RetOut(f1, TRUE, h.diags)
                  ELSE IF LinkAt(t + 1) = 0   \* tok->next()->link()->next()
                       THEN FaultOut(f1, h.diags)
                  ELSE IF body = 0 THEN RetOut(f1, f1.ret, h.diags)
                  ELSE IF Str(body) = "{"
                       THEN CallOut(f1, "ifThen", body, Next1(body), TRUE,
                                    f1.number_of_if > 0 \/ f1.suppressErrors,
                                    h.diags)
                  ELSE walkMiddle(f1, body, h.diags)
        ELSE walkMiddle(f1, t, <<>>)

\* line 1154: conditional initialisations seen so far settle the walk
enoughConditionalInits_One(number_of_if) == number_of_if >= 1

enoughConditionalInits_Three(number_of_if) == number_of_if >= 3

enoughConditionalInits(number_of_if) == number_of_if >= 2

\* line 1167: the variable is initialised by the if and by the else
bothBranchesInit_Differ(initif, initelse) == initif # initelse

bothBranchesInit(initif, initelse) == initif /\ initelse

\* the walker goes on in f after the call it made has returned val, with
\* *possibleInit of the call left at cpi
walkResume(f, val, cpi) ==
    LET endtok == LinkAt(f.tok)
        more == [f EXCEPT !.number_of_if = @ + 1]
    IN  CASE f.pc = "inner" ->
                LET f1 == IF f.hasPI THEN [f EXCEPT !.pi = cpi] ELSE f
                IN  IF val THEN RetOut(f1, TRUE, <<>>)
                    ELSE ContOut(f1, endtok, <<>>)
          [] f.pc = "ifThen" ->
                IF ~(Str(endtok) = "}" /\ Str(endtok + 1) = "else"
                     /\ Str(endtok + 2) = "{")
                THEN IF val \/ cpi
                     THEN IF enoughConditionalInits(more.number_of_if)
                          THEN RetOut(more, TRUE, <<>>)
                          ELSE walkMiddle(more, endtok, <<>>)
                     ELSE walkMiddle(f, endtok, <<>>)
                ELSE CallOut([f EXCEPT !.initif = val, !.possibleInitIf = cpi],
                             "ifElse", endtok + 2,
                             endtok + 3, TRUE,
                             f.number_of_if > 0 \/ f.suppressErrors, <<>>)
          [] f.pc = "ifElse" ->
                IF bothBranchesInit(f.initif, val) THEN RetOut(f, TRUE, <<>>)
                ELSE IF f.initif \/ val \/ cpi
                     THEN walkMiddle(more, endtok, <<>>)
                     ELSE walkMiddle(f, endtok, <<>>)
          [] OTHER ->  \* "forBody"
                IF cpi \/ val THEN RetOut(f, TRUE, <<>>)
                ELSE walkTail(f, f.tok,
                              IF ~f.suppressErrors
                              THEN checkIfForWhileHead(
                                       f.tok + 1, f.v, FALSE,
                                       f.number_of_if = 0).diags
                              ELSE <<>>)


\* Scope::varlist of the function scope: the declared variables, in order
RECURSIVE byNameToken(_)
byNameToken(ids) ==
    IF ids = {} THEN <<>>
    ELSE LET v == CHOOSE v \in ids : \A w \in ids : nameToken(v) <= nameToken(w)
         IN  <<v>> \o byNameToken(ids \ {v})

varlist == byNameToken({v \in VarIds : nameToken(v) >= BodyStart})

\* lines 1062-1069: is the declaration in the head of a for loop?
RECURSIVE inForHead(_)
inForHead(j) ==
    IF j = 0 THEN FALSE
    ELSE IF Str(j) = "(" THEN TRUE
    ELSE IF Str(j) \in {"{", ";", "}"} THEN FALSE
    ELSE inForHead(At(j - 1))

\* lines 1073-1078: a standard type between the type's start and ; or <
RECURSIVE scopeStdType(_)
scopeStdType(j) ==
    IF j = 0 \/ Str(j) \in {";", "<"} THEN FALSE
    ELSE isStandardType(j) \/ scopeStdType(Next1(j))

\* lines 1075-1080: the ; that ends the declaration statement
RECURSIVE declSemicolon(_)
declSemicolon(j) ==
    IF j = 0 \/ Str(j) = ";" THEN j ELSE declSemicolon(Next1(j))

\* lines 1057-1081: does checkScope start the walker for the variable?
scopeChecksVariable(v) ==
    LET i == Variable(v)
    IN  /\ ~((i.hasClassType /\ ~i.isPointer) \/ i.isStatic \/ i.isExtern
             \/ i.isConst \/ i.isArray \/ i.isReference)
        /\ Str(nameToken(v) + 1) # "("
        /\ ~inForHead(typeStartToken(v))
        /\ ((isC \/ scopeStdType(typeStartToken(v))) \/ i.isPointer)

\* checkScope: the next variable of the varlist
ScopeVar ==
    /\ phase = "scope" /\ stack = <<>>
    /\ wvar \in 1..Len(varlist)
    /\ \E v \in {varlist[wvar]} :
           IF scopeChecksVariable(v)
           THEN /\ stack' = <<NewFrame(declSemicolon(typeStartToken(v)), v,
                                       FALSE, FALSE)>>
                /\ started' = started \cup {v}
                /\ wvar' = wvar
           ELSE /\ wvar' = wvar + 1
                /\ UNCHANGED <<stack, started>>
    /\ UNCHANGED <<useMode, invalidAccess, tokens, isC, jobs, uvarFunctions, phase, run, checks, pos,
                   diags, firstDiags, retired, trace>>

Top == stack[Len(stack)]
Below == SubSeq(stack, 1, Len(stack) - 1)

\* the frames after a piece of the loop body: the frame it leaves, and on
\* top of it the invocation it calls
Frames(below, o) ==
    Append(below, o.f)
    \o (IF o.f.pc \in {"inner", "ifThen", "ifElse", "forBody"}
        THEN <<NewFrame(o.call.tok, o.f.v, o.call.hasPI, o.call.seed)>>
        ELSE <<>>)

\* checkScopeForVariable: one turn of the loop of the running invocation
WalkStep ==
    /\ phase = "scope" /\ stack # <<>> /\ Top.pc = "scan"
    /\ \E o \in {walkScan(Top)} :
           /\ stack' = Frames(Below, o)
           /\ diags' = diags \o o.diags
    /\ UNCHANGED <<useMode, invalidAccess, tokens, isC, jobs, uvarFunctions, phase, run, checks, pos,
                   firstDiags, retired, trace, wvar, started>>

\* checkScopeForVariable returns: to the invocation that called it, or to
\* checkScope
WalkReturn ==
    /\ phase = "scope" /\ stack # <<>> /\ Top.pc = "ret"
    /\ IF Len(stack) = 1
       THEN /\ stack' = <<>>
            /\ wvar' = wvar + 1
            /\ UNCHANGED diags
       ELSE LET o == walkResume(stack[Len(stack) - 1], Top.val, Top.pi)
            IN  /\ stack' = Frames(SubSeq(stack, 1, Len(stack) - 2), o)
                /\ diags' = diags \o o.diags
                /\ UNCHANGED wvar
    /\ UNCHANGED <<useMode, invalidAccess, tokens, isC, jobs, uvarFunctions, phase, run, checks, pos,
                   firstDiags, retired, trace, started>>

\* check(): every variable of the function has been handled
ScopeEnd ==
    /\ phase = "scope" /\ stack = <<>>
    /\ wvar > Len(varlist)
    /\ phase' = NextPhase("scope")
    /\ UNCHANGED <<useMode, invalidAccess, tokens, isC, jobs, uvarFunctions, run, checks, pos, diags,
                   firstDiags, retired, trace, wvar, stack, started>>

\* void main ( ) {  int x ;  ...  }   with `int x = 5 ;` split when xInit
DeclXInit(xInit) ==
    DeclX \o (IF xInit THEN <<"x", "=", "5", ";">> ELSE <<>>)

\* conditions that do not mention x
WalkConds == { <<"cond">>, <<"y", "<", "0">> }

\* the statements of a branch
BranchBodies ==
    { <<"x", "=", "1", ";">>, <<"y", "=", "x", "+", "1", ";">>, <<>> }

IfStmt(c, b) == <<"if", "(">> \o c \o <<")", "{">> \o b \o <<"}">>
IfElseStmt(c, b1, b2) == IfStmt(c, b1) \o <<"else", "{">> \o b2 \o <<"}">>

\* the statements of a scalar-walker body
WalkStmts ==
    { <<"x", "=", "1", ";">>,
      <<"y", "=", "x", "+", "1", ";">>,
      <<"use", "(", "x", ")", ";">>,
      <<"return", "x", ";">> }
    \cup {IfStmt(c, b) : c \in WalkConds, b \in BranchBodies}
    \cup {IfElseStmt(c, b1, b2) :
            c \in WalkConds, b1 \in BranchBodies, b2 \in BranchBodies}

WalkBodies ==
    { b \in [1..MaxWalkStmts -> WalkStmts] :
        \A i \in 1..(MaxWalkStmts - 1) : ~IsReturnStmt(b[i]) }

WalkProgram(xInit, b) ==
    Tokenize(FunctionHead \o DeclXInit(xInit) \o Flatten(b) \o <<"}">>)

InitWalker ==
    /\ tokens \in {WalkProgram(xInit, b) :
                      xInit \in BOOLEAN, b \in WalkBodies}
    /\ isC \in BOOLEAN
    /\ jobs = 1
    /\ uvarFunctions = {}
    /\ phase = "scope"
    /\ run = 1
    /\ checks = <<>>
    /\ pos = 0
    /\ diags = <<>>
    /\ firstDiags = <<>>
    /\ retired = {}
    /\ trace = <<>>
    /\ wvar = 1
    /\ stack = <<>>
    /\ started = {}
    /\ invalidAccess = FALSE
    /\ useMode = 0

NextWalker == ScopeVar \/ WalkStep \/ WalkReturn \/ ScopeEnd

SpecWalker == InitWalker /\ [][NextWalker]_vars

----------------------------------------------------------------------------
(* The scalar walker on malformed token lists *)

\* number of statements of a body whose token list is cut short
MaxBrokenStmts == 2

\* the running invocation dereferences a null Token pointer: undefined
\* behaviour.  The process is killed, or the read yields garbage and the
\* invocation returns either value.
WalkFault ==
    /\ phase = "scope" /\ stack # <<>> /\ Top.pc = "fault"
    /\ invalidAccess' = TRUE
    /\ \/ /\ phase' = "crashed"
          /\ stack' = <<>>
       \/ /\ \E val \in BOOLEAN :
                stack' = Append(Below, [Top EXCEPT !.pc = "ret", !.val = val])
          /\ UNCHANGED phase
    /\ UNCHANGED <<useMode, tokens, isC, jobs, uvarFunctions, run, checks, pos,
                   diags, firstDiags, retired, trace, wvar, started>>

\* statements with brackets of every kind the walker follows
BrokenStmts ==
    { <<"x", "=", "1", ";">>,
      <<"{", "x", "=", "1", ";", "}">>,
      <<"y", "=", "sizeof", "(", "x", ")", ";">>,
      <<"y", "=", "{", "1", "}", ";">>,
      <<"if", "(", "sizeof", "(", "y", ")", ")", "{", "}">>,
      <<"for", "(", ";", ";", ")", "{", "}">>,
      IfStmt(<<"cond">>, <<"x", "=", "1", ";">>),
      IfElseStmt(<<"cond">>, <<>>, <<"x", "=", "1", ";">>) }

BrokenBodies == [1..MaxBrokenStmts -> BrokenStmts]

\* the token list of a function whose body ends after n tokens: the brackets
\* that are still open have no link
BrokenProgram(b, n) ==
    Tokenize(FunctionHead \o DeclX \o SubSeq(Flatten(b) \o <<"}">>, 1, n))

InitBroken ==
    /\ tokens \in UNION {{BrokenProgram(b, n) :
                              n \in 0..(Len(Flatten(b)) + 1)} :
                          b \in BrokenBodies}
    /\ isC \in BOOLEAN
    /\ jobs = 1
    /\ uvarFunctions = {}
    /\ phase = "scope"
    /\ run = 1
    /\ checks = <<>>
    /\ pos = 0
    /\ diags = <<>>
    /\ firstDiags = <<>>
    /\ retired = {}
    /\ trace = <<>>
    /\ wvar = 1
    /\ stack = <<>>
    /\ started = {}
    /\ invalidAccess = FALSE
    /\ useMode = 0

NextBroken == ScopeVar \/ WalkStep \/ WalkReturn \/ ScopeEnd \/ WalkFault

SpecBroken == InitBroken /\ [][NextBroken]_vars

----------------------------------------------------------------------------
(* The scalar walker on conditions, loops and nested branches *)

\* number of statements after the declaration in such a body
MaxScopeStmts == 3

ReadX == <<"y", "=", "x", "+", "1", ";">>
AssignX1 == <<"x", "=", "1", ";">>

\* conditions that mention x: a read, a read after &&, two reads, an
\* occurrence after && that is no read
HeadConds ==
    { <<"x", "<", "0">>,
      <<"y", "&&", "x", "<", "0">>,
      <<"x", "<", "0", "&&", "x", ">", "5">>,
      <<"y", "&&", "(", "x", "=", "1", ")">> }

\* loops and blocks the walker has no handling for
LoopStmts ==
    { <<"while", "(", "cond", ")", "{">> \o ReadX \o <<"}">>,
      <<"for", "(", ";", ";", ")", "{">> \o ReadX \o <<"}">>,
      <<"do", "{">> \o ReadX \o <<"}", "while", "(", "cond", ")", ";">>,
      <<"switch", "(", "cond", ")", "{">> \o ReadX \o <<"}">>,
      <<"asm", "(", "\"nop\"", ")", ";">> }

\* an if in a branch of an if / else
NestedStmts ==
    { IfElseStmt(<<"cond">>, IfStmt(<<"cond">>, AssignX1), <<>>),
      IfElseStmt(<<"cond">>, <<>>, IfStmt(<<"cond">>, AssignX1)),
      IfElseStmt(<<"cond">>, AssignX1, <<>>),
      IfElseStmt(<<"cond">>, <<>>, AssignX1),
      IfStmt(<<"cond">>, IfStmt(<<"cond">>, AssignX1)),
      IfStmt(<<"cond">>, IfStmt(<<"y", "&&", "x", "<", "0">>, <<>>)) }

ScopeStmts ==
    { ReadX, IfStmt(<<"cond">>, AssignX1), IfStmt(<<"cond">>, <<>>) }
    \cup {IfStmt(c, <<>>) : c \in HeadConds}
    \cup LoopStmts \cup NestedStmts

ScopeProgram(b) == Tokenize(FunctionHead \o DeclX \o Flatten(b) \o <<"}">>)

InitScopes ==
    /\ tokens \in {ScopeProgram(b) : b \in [1..MaxScopeStmts -> ScopeStmts]}
    /\ isC \in BOOLEAN
    /\ jobs = 1
    /\ uvarFunctions = {}
    /\ phase = "scope"
    /\ run = 1
    /\ checks = <<>>
    /\ pos = 0
    /\ diags = <<>>
    /\ firstDiags = <<>>
    /\ retired = {}
    /\ trace = <<>>
    /\ wvar = 1
    /\ stack = <<>>
    /\ started = {}
    /\ invalidAccess = FALSE
    /\ useMode = 0

SpecScopes == InitScopes /\ [][NextWalker]_vars

----------------------------------------------------------------------------
(* The scalar walker on occurrences of the form & x *)

\* number of statements after the declaration in such a body
MaxUsageStmts == 2

\* what follows the variable
UsagePosts == { <<>>, <<"+", "1">>, <<"++">>, <<"<<", "1">> }

\* & x  behind each of  ( , = ? :  and in  * ( & x .. ) = 1 ;
AddressStmts(post) ==
    { <<"f", "(", "&", "x">> \o post \o <<")", ";">>,
      <<"f", "(", "1", ",", "&", "x">> \o post \o <<")", ";">>,
      <<"y", "=", "&", "x">> \o post \o <<";">>,
      <<"y", "=", "cond", "?", "&", "x">> \o post \o <<":", "0", ";">>,
      <<"y", "=", "cond", "?", "0", ":", "&", "x">> \o post \o <<";">>,
      <<"*", "(", "&", "x">> \o post \o <<")", "=", "1", ";">> }

UsageStmts == {ReadX} \cup UNION {AddressStmts(post) : post \in UsagePosts}

InitUsage ==
    /\ tokens \in {ScopeProgram(b) : b \in [1..MaxUsageStmts -> UsageStmts]}
    /\ isC \in BOOLEAN
    /\ jobs = 1
    /\ uvarFunctions = {}
    /\ phase = "scope"
    /\ run = 1
    /\ checks = <<>>
    /\ pos = 0
    /\ diags = <<>>
    /\ firstDiags = <<>>
    /\ retired = {}
    /\ trace = <<>>
    /\ wvar = 1
    /\ stack = <<>>
    /\ started = {}
    /\ invalidAccess = FALSE
    /\ useMode = 0

SpecUsage == InitUsage /\ [][NextWalker]_vars

----------------------------------------------------------------------------
(* The scalar walker on blocks in blocks: inner scopes, loops with a head  *)
(* that mentions x, branches after a conditional initialisation            *)

\* number of statements after the declaration in such a body
MaxNestStmts == 2

Block(b) == <<"{">> \o b \o <<"}">>
ForStmt(h, b) == <<"for", "(">> \o h \o <<")", "{">> \o b \o <<"}">>

\* for-heads: empty, and one that reads x in the condition
EmptyHead == <<";", ";">>
ReadHead == <<";", "x", "<", "5", ";">>

NestStmts ==
    { ReadX, AssignX1, Block(ReadX),
      IfStmt(<<"cond">>, AssignX1),
      IfStmt(<<"cond">>, ReadX),
      IfStmt(<<"cond">>, Block(ReadX)),
      IfStmt(<<"cond">>, IfStmt(<<"x", "<", "0">>, <<>>)),
      IfStmt(<<"cond">>, ForStmt(ReadHead, <<>>)),
      IfElseStmt(<<"cond">>, AssignX1, <<>>),
      IfElseStmt(<<"cond">>, <<>>, AssignX1),
      ForStmt(EmptyHead, ReadX),
      ForStmt(EmptyHead, Block(ReadX)),
      ForStmt(EmptyHead, IfStmt(<<"x", "<", "0">>, <<>>)),
      ForStmt(ReadHead, <<>>),
      ForStmt(ReadHead, Block(ReadX)) }

InitNested ==
    /\ tokens \in {ScopeProgram(b) : b \in [1..MaxNestStmts -> NestStmts]}
    /\ isC \in BOOLEAN
    /\ jobs = 1
    /\ uvarFunctions = {}
    /\ phase = "scope"
    /\ run = 1
    /\ checks = <<>>
    /\ pos = 0
    /\ diags = <<>>
    /\ firstDiags = <<>>
    /\ retired = {}
    /\ trace = <<>>
    /\ wvar = 1
    /\ stack = <<>>
    /\ started = {}
    /\ invalidAccess = FALSE
    /\ useMode = 0

SpecNested == InitNested /\ [][NextWalker]_vars

\* the analysis is synchronous code: it goes on as long as it has a step
SpecNestedLive == InitNested /\ [][NextWalker]_vars /\ WF_vars(NextWalker)

----------------------------------------------------------------------------
(* The transparent-helper scan: UninitVar::analyseFunctions *)

\* %type%: a name that is no variable and not delete
isType(j) == isName(j) /\ VarIdAt(j) = 0 /\ Str(j) # "delete"

\* lines 942-966: how the reference parameter is used in the function:
\* [r, w]
RECURSIVE paramUsage(_, _, _, _)
paramUsage(j, varid, indentlevel, r) ==
    IF j = 0 THEN [r |-> r, w |-> FALSE]
    ELSE IF Str(j) = "{" THEN paramUsage(Next1(j), varid, indentlevel + 1, r)
    ELSE IF Str(j) = "}"
         THEN IF indentlevel <= 1 THEN [r |-> r, w |-> FALSE]
              ELSE paramUsage(Next1(j), varid, indentlevel - 1, r)
    ELSE IF indentlevel = 0 /\ Str(j) = ";" THEN [r |-> r, w |-> FALSE]
    ELSE IF indentlevel >= 1 /\ VarIdAt(j) = varid
         THEN IF isIncDec(j - 1) \/ isIncDec(j + 1)
              THEN paramUsage(Next1(j), varid, indentlevel, TRUE)
              ELSE [r |-> r, w |-> TRUE]
    ELSE paramUsage(Next1(j), varid, indentlevel, r)

\* the scan that gives up on a written reference parameter only
paramRejected_Written(r, w) == w

\* line 968: if (!r || w) break;
paramRejected(r, w) == ~r \/ w

\* line 977: while (tok2->isName()) tok2 = tok2->next();
RECURSIVE skipNames(_)
skipNames(j) == IF j # 0 /\ isName(j) THEN skipNames(Next1(j)) ELSE j

\* "const %type% &|*| const| %var% ,|)"
constParam(j) ==
    LET k == IF Str(j + 2) \in {"&", "*"} THEN j + 3 ELSE j + 2
        m == IF Str(k) = "const" /\ isName(k + 1) THEN k + 1 ELSE k
    IN  Str(j) = "const" /\ isType(j + 1) /\ isName(m)
        /\ Str(m + 1) \in {",", ")"}

\* lines 929-999: the parameters, from tok2 on: the token the loop stops at
RECURSIVE paramScan(_)
paramScan(j) ==
    IF j = 0 \/ Str(j) = ")" THEN j
    ELSE LET tok2 == IF Str(j) = "," THEN Next1(j) ELSE j
             u == paramUsage(tok2, VarIdAt(tok2 + 2), 0, FALSE)
         IN  IF /\ isType(tok2) /\ isName(tok2 + 1)
                /\ Str(tok2 + 2) \in {",", ")"} /\ isStandardType(tok2)
             THEN paramScan(At(tok2 + 2))
             ELSE IF /\ isStandardType(tok2) /\ isType(tok2)
                     /\ Str(tok2 + 1) = "&" /\ isName(tok2 + 2)
                     /\ Str(tok2 + 3) \in {",", ")"}
                  THEN IF paramRejected(u.r, u.w) THEN tok2
                       ELSE paramScan(At(tok2 + 3))
             ELSE IF constParam(tok2) /\ isStandardType(tok2 + 1)
                  THEN paramScan(skipNames(At(tok2 + 3)))
             ELSE IF /\ Str(tok2) = "const" /\ isType(tok2 + 1)
                     /\ isName(tok2 + 2) /\ Str(tok2 + 3) = "["
                     /\ Str(tok2 + 4) = "]" /\ Str(tok2 + 5) \in {",", ")"}
                     /\ isStandardType(tok2 + 1)
                  THEN paramScan(At(tok2 + 5))
             ELSE tok2

\* lines 919-1006: the names of the simple functions, from the token j on
RECURSIVE analyseFrom(_)
analyseFrom(j) ==
    IF j = 0 THEN {}
    ELSE IF Str(j) = "{" THEN
        (IF LinkAt(j) = 0 THEN {} ELSE analyseFrom(Next1(LinkAt(j))))
    ELSE IF /\ Str(j) # "::" /\ isName(j + 1) /\ Str(j + 2) = "("
            /\ isType(j + 3)
            /\ LinkAt(j + 2) # 0
            /\ Str(LinkAt(j + 2)) = ")"
            /\ Str(LinkAt(j + 2) + 1) \in {"{", ";"}
         THEN LET tok2 == paramScan(At(j + 3))
              IN  (IF tok2 # 0 /\ LinkAt(tok2) = j + 2
                   THEN {Str(j + 1)} ELSE {})
                  \cup analyseFrom(Next1(j))
    ELSE analyseFrom(Next1(j))

analyseFunctions == analyseFrom(At(1))

----------------------------------------------------------------------------
(* The whole analysis, run twice over the same token list *)

\* executionPaths() that scans whatever the number of jobs
registryAfterScan_Always(registry, njobs) == registry \cup analyseFunctions

\* lines 1031-1032: the registry after the scan
registryAfterScan(registry, njobs) ==
    IF njobs = 1 THEN registry \cup analyseFunctions ELSE registry

\* executionPaths(): the scan for simple functions
Analyse ==
    /\ phase = "analyse"
    /\ uvarFunctions' = registryAfterScan(uvarFunctions, jobs)
    /\ phase' = NextPhase("analyse")
    /\ checks' = checksAt(phase')
    /\ pos' = posAt(phase')
    /\ UNCHANGED <<useMode, invalidAccess, tokens, isC, jobs, run, diags, firstDiags, retired, trace,
                   wvar, stack, started>>

\* the analysis is run again over the same token list; the registry stays
Rerun ==
    /\ phase = "done" /\ run = 1
    /\ run' = 2
    /\ firstDiags' = diags
    /\ diags' = <<>>
    /\ phase' = Passes[1]
    /\ checks' = checksAt(phase')
    /\ pos' = posAt(phase')
    /\ retired' = {}
    /\ trace' = <<>>
    /\ wvar' = 0
    /\ started' = {}
    /\ UNCHANGED <<useMode, invalidAccess, tokens, isC, jobs, uvarFunctions, stack>>

\* helper functions in front of main: none; with a reference parameter
\* that is only read, written, read and then written, or not used; with a
\* value parameter; with a const reference; with a pointer parameter
Helpers ==
    { <<>>,
      <<"void", "f", "(", "int", "&", "a", ")", "{", "a", "++", ";", "}">>,
      <<"void", "f", "(", "int", "&", "a", ")", "{", "a", "=", "0", ";", "}">>,
      <<"void", "f", "(", "int", "&", "a", ")", "{", "a", "++", ";",
        "a", "=", "0", ";", "}">>,
      <<"void", "f", "(", "int", "&", "a", ")", "{", "}">>,
      <<"void", "f", "(", "int", "a", ")", "{", "a", "=", "0", ";", "}">>,
      <<"void", "f", "(", "const", "int", "&", "a", ")", "{", "}">>,
      <<"void", "f", "(", "int", "*", "a", ")", "{", "}">> }

RunStmts ==
    { <<"f", "(", "p", ")", ";">>,
      <<"g", "(", "p", ")", ";">>,
      <<"f", "(", "x", ")", ";">>,
      <<"g", "(", "x", ")", ";">>,
      <<"*", "p", "=", "0", ";">>,
      <<"x", "=", "1", ";">>,
      <<"return", "x", ";">> }

RunBodies ==
    { b \in [1..MaxRunStmts -> RunStmts] :
        \A i \in 1..(MaxRunStmts - 1) : ~IsReturnStmt(b[i]) }

RunProgram(h, b) ==
    Tokenize(h \o FunctionHead \o DeclP(FALSE) \o DeclX
             \o Flatten(b) \o <<"}">>)

\* the registry may hold names saved by saveAnalysisData() beforehand
Init ==
    /\ tokens \in {RunProgram(h, b) : h \in Helpers, b \in RunBodies}
    /\ isC = TRUE
    /\ jobs \in {1, 2}
    /\ uvarFunctions \in {{}, {"g"}}
    /\ phase = Passes[1]
    /\ run = 1
    /\ checks = checksAt(phase)
    /\ pos = posAt(phase)
    /\ diags = <<>>
    /\ firstDiags = <<>>
    /\ retired = {}
    /\ trace = <<>>
    /\ wvar = 0
    /\ stack = <<>>
    /\ started = {}
    /\ invalidAccess = FALSE
    /\ useMode = 0

Next ==
    \/ Analyse
    \/ PathsStep
    \/ PathsEnd
    \/ ScopeVar
    \/ WalkStep
    \/ WalkReturn
    \/ ScopeEnd
    \/ Rerun

Spec == Init /\ [][Next]_vars

----------------------------------------------------------------------------
(* The generic use check called directly: UninitVar::use on the lists of   *)
(* checks the execution-path pass can hold, for every mode                 *)

\* number of checks in such a list
MaxUseChecks == 2

\* void main ( ) { int * p ; int * q ; char buf [ 8 ] ; int x ;
\*                 use ( p , buf , x ) ; }
UseProgram ==
    Tokenize(FunctionHead \o DeclP(FALSE) \o DeclQ \o DeclBuf \o DeclX
             \o <<"use", "(", "p", ",", "buf", ",", "x", ")", ";", "}">>)

\* the occurrences of the variables behind the declarations
UseToks == {j \in 1..NTok : VarIdAt(j) # 0 /\ j > declSemicolon(nameToken(4))}

\* the checks of p, buf and x: alloc is set for a pointer that is no array
\* only (alloc_pointer), strncpy_ and memset_nonzero for any variable
UseChecks ==
    { c \in [varId : {1, 3, 4}, alloc : BOOLEAN, strncpy_ : BOOLEAN,
             memset_nonzero : BOOLEAN] :
        c.alloc => (isPointer(c) /\ ~isArray(c)) }

UseLists ==
    UNION { [1..n -> UseChecks] : n \in 1..MaxUseChecks }

InitUse ==
    /\ tokens = UseProgram
    /\ isC = TRUE
    /\ jobs = 1
    /\ uvarFunctions = {}
    /\ phase = "use"
    /\ run = 1
    /\ checks \in UseLists
    /\ pos \in UseToks
    /\ diags = <<>>
    /\ firstDiags = <<>>
    /\ retired = {}
    /\ trace = <<>>
    /\ wvar = 0
    /\ stack = <<>>
    /\ started = {}
    /\ invalidAccess = FALSE
    /\ useMode \in 0..5

\* use(checks, tok, mode) is called; what it reports is kept
UseCall ==
    /\ phase = "use"
    /\ diags' = UseSt([checks |-> checks, diags |-> diags, ret |-> 0],
                      pos, useMode).diags
    /\ phase' = "used"
    /\ UNCHANGED <<useMode, invalidAccess, tokens, isC, jobs, uvarFunctions,
                   run, checks, pos, firstDiags, retired, trace, wvar, stack,
                   started>>

SpecUse == InitUse /\ [][UseCall]_vars

----------------------------------------------------------------------------
(* Properties: vocabulary *)

\* the first statement after the declarations of main (x is declared last)
FirstStmt == declSemicolon(nameToken(4)) + 1

\* T * p = malloc ( 8 ) ;  as the tokenizer splits it
pDeclInit == Str(nameToken(1) + 2) = "p" /\ Str(nameToken(1) + 3) = "="

\* int x = 5 ;  as the tokenizer splits it
xDeclInit ==
    /\ Str(nameToken(4) + 2) = "x" /\ Str(nameToken(4) + 3) = "="
    /\ Str(nameToken(4) + 4) = "5"

\* the first statement after the declaration of x and its initializer
WalkFirst == IF xDeclInit THEN FirstStmt + 4 ELSE FirstStmt

\* the execution-path pass has gone past the token j
PassedBy(j) == phase # "paths" \/ pos > j

HasDiag(id, j) ==
    \E k \in 1..Len(diags) : diags[k].id = id /\ diags[k].tok = j
DiagsAt(j) == {k \in 1..Len(diags) : diags[k].tok = j}
DiagsOf(name) == {k \in 1..Len(diags) : diags[k].var = name}

\* the checks of variable v the pass held when it parsed the token j
ParsedAt(j) == {i \in 1..Len(trace) : trace[i].tok = j}
TrackedAt(j, v) ==
    \E i \in ParsedAt(j) : v \in IdsOf(trace[i].pre)
AllocatedAt(j, v) ==
    \E i \in ParsedAt(j) : \E k \in 1..Len(trace[i].pre) :
        trace[i].pre[k].varId = v /\ trace[i].pre[k].alloc

FreeOf(j, v) ==
    /\ Str(j) = "free" /\ Str(j + 1) = "(" /\ VarIdAt(j + 2) = v
    /\ Str(j + 3) = ")" /\ Str(j + 4) = ";"
DoubleFree(j) == FreeOf(j, 1) /\ FreeOf(j + 5, 1)
FirstFree(j) == \A i \in 1..(j - 1) : ~FreeOf(i, 1)

StrncpyOf(j, lit, n) ==
    /\ Str(j) = "strncpy" /\ Str(j + 1) = "(" /\ VarIdAt(j + 2) = 3
    /\ Str(j + 3) = "," /\ Str(j + 4) = lit /\ Str(j + 5) = ","
    /\ Str(j + 6) = n /\ Str(j + 7) = ")" /\ Str(j + 8) = ";"
PrintfOf(j) ==
    /\ Str(j) = "printf" /\ Str(j + 1) = "(" /\ Str(j + 2) = "\"%s\""
    /\ Str(j + 3) = "," /\ VarIdAt(j + 4) = 3 /\ Str(j + 5) = ")"

AssignX(j) ==
    VarIdAt(j) = 4 /\ Str(j + 1) = "=" /\ isNumber(j + 2) /\ Str(j + 3) = ";"
\* if ( .. ) { x = n ; }  at j, the condition not mentioning x
ThenOpen(j) == LinkAt(j + 1) + 1
IfAssigns(j) ==
    /\ Str(j) = "if" /\ Str(j + 1) = "(" /\ LinkAt(j + 1) # 0
    /\ \A i \in (j + 2)..(LinkAt(j + 1) - 1) : VarIdAt(i) # 4
    /\ Str(ThenOpen(j)) = "{" /\ AssignX(ThenOpen(j) + 1)
    /\ Str(ThenOpen(j) + 5) = "}"
\* the token after the } of the then-branch
AfterThen(j) == ThenOpen(j) + 6
IfElseAssigns(j) ==
    /\ IfAssigns(j)
    /\ Str(AfterThen(j)) = "else" /\ Str(AfterThen(j) + 1) = "{"
    /\ AssignX(AfterThen(j) + 2) /\ Str(AfterThen(j) + 6) = "}"

----------------------------------------------------------------------------
(* Properties of the execution-path pass (SpecTracker) *)

C1_Case ==
    /\ ~pDeclInit
    /\ Str(FirstStmt) = "*" /\ VarIdAt(FirstStmt + 1) = 1
    /\ Str(FirstStmt + 2) = "="
    /\ PassedBy(FirstStmt + 1)

\* C1: a pointer declared without initializer whose next statement is
\* `* p = v ;` gets uninitvar at the dereferenced occurrence of p.
C1_DerefOfUninitPointer ==
    C1_Case => HasDiag("uninitvar", FirstStmt + 1)

C1_Witness == C1_Case /\ HasDiag("uninitvar", FirstStmt + 1)

\* C2 as stated: for every `T * p = malloc ( n ) ; ... ; free ( p ) ;
\* free ( p ) ;` the first free reports nothing and the second reports
\* uninitvar at its argument, whatever `...` is.
C2_AnyPrefix ==
    \A j \in 1..NTok :
        (pDeclInit /\ DoubleFree(j) /\ FirstFree(j) /\ PassedBy(j + 8))
            => (DiagsAt(j + 2) = {} /\ HasDiag("uninitvar", j + 7))

\* C2: when the check of p is active and marked allocated as the first
\* free ( p ) is reached, the first free reports nothing and the second
\* reports uninitvar at its argument; when `...` has removed the check,
\* neither free reports.
C2_DoubleFree ==
    \A j \in 1..NTok :
        (DoubleFree(j) /\ PassedBy(j + 8))
            => /\ AllocatedAt(j, 1)
                    => (DiagsAt(j + 2) = {} /\ HasDiag("uninitvar", j + 7))
               /\ (ParsedAt(j) # {} /\ ~TrackedAt(j, 1))
                    => (DiagsAt(j + 2) = {} /\ DiagsAt(j + 7) = {})

C2_Witness ==
    \E j \in 1..NTok :
        /\ pDeclInit /\ j > FirstStmt
        /\ DoubleFree(j) /\ AllocatedAt(j, 1) /\ PassedBy(j + 8)
        /\ DiagsAt(j + 2) = {} /\ HasDiag("uninitvar", j + 7)

C5_Case ==
    /\ StrncpyOf(FirstStmt, "\"hello\"", "5")
    /\ PrintfOf(FirstStmt + 9)
    /\ PassedBy(FirstStmt + 13)

\* C5: after strncpy ( buf , "hello" , 5 ) the use of buf as a string in
\* printf ( "%s" , buf ) reports uninitstring.
C5_UnterminatedCopy ==
    C5_Case => HasDiag("uninitstring", FirstStmt + 13)

C5_Witness == C5_Case /\ HasDiag("uninitstring", FirstStmt + 13)

C6_Case ==
    /\ StrncpyOf(FirstStmt, "\"hi\"", "8")
    /\ PrintfOf(FirstStmt + 9)

\* C6: after strncpy ( buf , "hi" , 8 ) no diagnostic at all is reported
\* for buf.
C6_TerminatedCopy == C6_Case => DiagsOf("buf") = {}

C6_Witness ==
    C6_Case /\ PassedBy(FirstStmt + 14) /\ DiagsOf("buf") = {}

\* C8 as stated: a check that has reported is removed in the same step, so
\* each check produces at most one diagnostic.
C8_OneDiagPerCheck ==
    \A n \in VarNames : Cardinality(DiagsOf(n)) <= 1

\* C9: once the check of a variable id has been removed, no later token
\* of the function produces a diagnostic for that variable: what a step
\* reports is about variables whose check was active before the step.
C9_NoDiagAfterRemoval ==
    [][phase = "paths" =>
         \A k \in (Len(diags) + 1)..Len(diags') :
             /\ VarIdOfName(diags'[k].var) \notin retired
             /\ VarIdOfName(diags'[k].var) \in IdsOf(checks)]_vars

\* the check of p was removed, and a later free ( p ) went by in silence
C9_Witness ==
    \E j \in 1..NTok :
        /\ FreeOf(j, 1) /\ ParsedAt(j) # {} /\ ~TrackedAt(j, 1)
        /\ 1 \in retired /\ PassedBy(j + 3)
        /\ DiagsAt(j + 2) = {}

----------------------------------------------------------------------------
(* Properties of the scalar walker (SpecWalker) *)

C3_Case == ~xDeclInit /\ IfElseAssigns(FirstStmt)

\* C3: when both branches of an if/else assign x before any read, no
\* diagnostic is reported for x.
C3_BothBranchesAssign == C3_Case => DiagsOf("x") = {}

C3_Witness ==
    /\ C3_Case /\ phase = "done" /\ 4 \in started
    /\ Str(AfterThen(FirstStmt) + 7) = "use"
    /\ VarIdAt(AfterThen(FirstStmt) + 9) = 4
    /\ DiagsOf("x") = {}

C4_Case ==
    /\ ~xDeclInit /\ IfAssigns(FirstStmt)
    /\ Str(AfterThen(FirstStmt)) # "else"
    /\ phase = "done"

\* C4 as stated: after `if ( cond ) { x = 1 ; }` a diagnostic is reported
\* at the occurrence of x in `use ( x ) ;`.
C4_ReportAtCallArgument ==
    (/\ C4_Case
     /\ Str(AfterThen(FirstStmt)) = "use"
     /\ VarIdAt(AfterThen(FirstStmt) + 2) = 4)
        => DiagsAt(AfterThen(FirstStmt) + 2) # {}

\* C4: after `if ( cond ) { x = 1 ; }` a definite read of x (`return x ;`,
\* `y = x + 1 ;`) gets uninitvar at that occurrence; x as the argument of
\* a call `use ( x ) ;` is no definite read: the walk ends there and
\* nothing is reported.
C4_SingleBranchAssign ==
    C4_Case =>
        /\ Str(AfterThen(FirstStmt)) = "return"
               => HasDiag("uninitvar", AfterThen(FirstStmt) + 1)
        /\ (Str(AfterThen(FirstStmt)) = "y"
            /\ VarIdAt(AfterThen(FirstStmt) + 2) = 4)
               => HasDiag("uninitvar", AfterThen(FirstStmt) + 2)
        /\ Str(AfterThen(FirstStmt)) = "use" => diags = <<>>

C4_Witness ==
    /\ C4_Case
    /\ Str(AfterThen(FirstStmt)) = "return"
    /\ VarIdAt(AfterThen(FirstStmt) + 1) = 4
    /\ HasDiag("uninitvar", AfterThen(FirstStmt) + 1)

\* C7 as stated: checkScope skips a declaration with an in-place
\* initializer, the walker is not started for it, and nothing is reported.
C7_InitializedSkipped ==
    xDeclInit => (4 \notin started /\ DiagsOf("x") = {})

\* C7: for a local declared with an in-place initializer the walker is
\* started like for any other local; it ends at the initializing
\* assignment and reports nothing, whatever statements follow.
C7_InitializedSettles ==
    xDeclInit =>
        /\ DiagsOf("x") = {}
        /\ (phase = "done" \/ stack # <<>>) => 4 \in started

C7_Witness ==
    /\ xDeclInit /\ phase = "done" /\ 4 \in started
    /\ \E j \in WalkFirst..NTok : Str(j) = "return" /\ VarIdAt(j + 1) = 4
    /\ DiagsOf("x") = {}

----------------------------------------------------------------------------
(* Properties of the whole analysis (Spec) *)

\* C10: the second run of the whole analysis over the same token list
\* reports the same diagnostics in the same order as the first, also when
\* the first run has filled the registry of simple functions.
C10_Idempotent ==
    (phase = "done" /\ run = 2) => diags = firstDiags

C10_Witness ==
    /\ phase = "done" /\ run = 2 /\ jobs = 1
    /\ "f" \in uvarFunctions
    /\ firstDiags # <<>> /\ diags = firstDiags

----------------------------------------------------------------------------
(* Properties of the execution-path pass (SpecTracker), continued *)

\* the diagnostics reported by a check of the pass
ByCheck == {k \in 1..Len(diags) : diags[k].by.varId # 0}

\* the kind the state of the check c stands for
KindOfState(c) ==
    IF c.strncpy_ \/ c.memset_nonzero THEN "uninitstring"
    ELSE IF Variable(c.varId).isPointer /\ ~Variable(c.varId).isArray
            /\ c.alloc
         THEN "uninitdata"
    ELSE "uninitvar"

\* C11 as stated: the kind of every error a check reports is the kind its
\* state stands for.
C11_KindFromState ==
    \A k \in ByCheck : diags[k].id = KindOfState(diags[k].by)

\* C11: the kind of an error reported by use() is the kind the state of
\* the check stands for; the error reported by dealloc_pointer() is always
\* uninitvar, also when a string flag is set; uninitdata is never reported
\* for a pointer that is not allocated.
C11_KindOfError ==
    \A k \in ByCheck :
        /\ diags[k].from = "use" => diags[k].id = KindOfState(diags[k].by)
        /\ diags[k].from = "dealloc_pointer" =>
               /\ diags[k].id = "uninitvar"
               /\ Variable(diags[k].by.varId).isPointer
               /\ ~diags[k].by.alloc
        /\ diags[k].id = "uninitdata" =>
               (Variable(diags[k].by.varId).isPointer /\ diags[k].by.alloc)

\* use() has reported uninitstring, and free ( p ) has reported for a
\* check with the strncpy flag set
C11_Witness ==
    /\ \E k \in ByCheck :
           diags[k].from = "use" /\ diags[k].id = "uninitstring"
    /\ \E k \in ByCheck :
           /\ diags[k].from = "dealloc_pointer"
           /\ diags[k].by.strncpy_

AsmAt(j) ==
    Str(j) = "asm" /\ Str(j + 1) = "(" /\ isStr(j + 2) /\ Str(j + 3) = ")"

\* C12: when the pass has parsed  asm ( "..." )  no check is left, and no
\* check reports for a token after the asm.
C12_AsmBailsOut ==
    \A j \in 1..NTok :
        (AsmAt(j) /\ ParsedAt(j) # {} /\ PassedBy(j))
            => /\ checks = <<>>
               /\ \A k \in ByCheck : diags[k].tok < j

\* the check of p was active at the asm, and a free ( p ) that would have
\* reported follows
C12_Witness ==
    \E j \in 1..NTok :
        /\ AsmAt(j) /\ TrackedAt(j, 1) /\ ~AllocatedAt(j, 1)
        /\ FreeOf(j + 5, 1)
        /\ phase # "paths" /\ checks = <<>>
        /\ DiagsAt(j + 7) = {}

----------------------------------------------------------------------------
(* Properties of the whole analysis (Spec), continued *)

\* C13: when the number of jobs is not 1, no step of executionPaths()
\* changes the registry of simple functions.
C13_NoWriteWithJobs ==
    [][jobs # 1 => uvarFunctions' = uvarFunctions]_vars

\* both runs are over, the token list has a simple function, and the
\* registry does not hold it
C13_Witness ==
    /\ jobs # 1 /\ phase = "done" /\ run = 2
    /\ "f" \in analyseFunctions
    /\ "f" \notin uvarFunctions

----------------------------------------------------------------------------
(* Properties of the scalar walker on malformed token lists (SpecBroken) *)

\* an opening bracket without a link: its partner lies beyond the end of
\* the token list
Malformed == \E j \in 1..NTok : Str(j) \in Openers /\ LinkAt(j) = 0

\* C14: on a malformed token list (a bracket without a link, the list
\* ending early) the scalar walker and the head scanner never dereference a
\* missing link or a token past the end: no invalid access happens.
C14_MalformedBailsOut == Malformed => ~invalidAccess

----------------------------------------------------------------------------
(* Properties of the scalar walker on conditions and loops (SpecScopes) *)

\* y = x + 1 ;  at j
ReadsX(j) ==
    /\ Str(j) = "y" /\ Str(j + 1) = "=" /\ VarIdAt(j + 2) = 4
    /\ Str(j + 3) = "+" /\ Str(j + 5) = ";"

\* the } that ends the then-branch of the if at j
ThenClose(j) == LinkAt(ThenOpen(j))

\* if ( cond ) { if ( cond ) { x = n ; } }  at j: the then-branch does not
\* settle, it signals a possible initialisation
IfNestedAssigns(j) ==
    /\ Str(j) = "if" /\ Str(j + 1) = "(" /\ Str(j + 2) = "cond"
    /\ Str(ThenOpen(j)) = "{" /\ IfAssigns(ThenOpen(j) + 1)
    /\ AfterThen(ThenOpen(j) + 1) = ThenClose(j)

\* an if without else at j whose then-branch settles or signals a possible
\* initialisation
PartialInit(j) ==
    /\ IfAssigns(j) \/ IfNestedAssigns(j)
    /\ Str(ThenClose(j) + 1) # "else"

AfterIf(j) == ThenClose(j) + 1

\* C15: two else-less ifs in a row whose then-branches settled or signalled
\* a possible initialisation make the walker settle at the end of the
\* second: nothing is reported after it.  After one such if the walker goes
\* on: a read that follows is reported.
C15_TwoPartialInitsSettle ==
    phase = "done" =>
        /\ (PartialInit(FirstStmt) /\ PartialInit(AfterIf(FirstStmt)))
              => \A k \in 1..Len(diags) :
                    diags[k].tok < AfterIf(AfterIf(FirstStmt))
        /\ (PartialInit(FirstStmt) /\ ReadsX(AfterIf(FirstStmt)))
              => HasDiag("uninitvar", AfterIf(FirstStmt) + 2)

\* two such ifs, then a read of x, and nothing has been reported
C15_Witness ==
    /\ phase = "done"
    /\ PartialInit(FirstStmt) /\ PartialInit(AfterIf(FirstStmt))
    /\ ReadsX(AfterIf(AfterIf(FirstStmt)))
    /\ diags = <<>>

\* the invocation that called the running one
Caller == stack[Len(stack) - 1]

\* the else-branch of an if / else returns to the invocation that walks the
\* statement
ElseReturns ==
    /\ phase = "scope" /\ Len(stack) >= 2
    /\ Top.pc = "ret" /\ Caller.pc = "ifElse"

\* C16: after an if with an else the walker settles exactly when both
\* branches settled; otherwise number_of_if grows by one when a branch
\* settled or a branch, then or else, signalled a possible initialisation,
\* and stays as it is when none did.
C16_EitherBranchCounts ==
    [][ElseReturns =>
         LET after == stack'[Len(stack) - 1]
             counted == \/ Caller.initif \/ Top.val
                        \/ Caller.possibleInitIf \/ Top.pi
         IN  IF Caller.initif /\ Top.val
             THEN after.pc = "ret" /\ after.val
             ELSE /\ after.pc # "ret"
                  /\ after.number_of_if =
                        Caller.number_of_if + (IF counted THEN 1 ELSE 0)]_vars

\* the running invocation is at an occurrence of its variable in a
\* statement
VariableSeen ==
    /\ phase = "scope" /\ stack # <<>>
    /\ Top.pc = "scan" /\ Top.tok # 0
    /\ VarIdAt(Top.tok) = Top.v

\* C17: at an occurrence of the variable in a statement the walker reports
\* uninitvar and goes on with the next token when the occurrence is a read
\* and errors are not suppressed; in every other case it reports nothing
\* and settles.
C17_ReadGoesOnElseSettles ==
    [][VariableSeen =>
         LET after == stack'[Len(stack)]
         IN  IF /\ ~Top.suppressErrors
                /\ isVariableUsage(Top.tok, Variable(Top.v).isPointer)
             THEN /\ diags' = Append(diags, uninitvarError(Top.tok))
                  /\ after.pc = "scan" /\ after.tok = Top.tok + 1
             ELSE /\ diags' = diags
                  /\ after.pc = "ret" /\ after.val]_vars

\* two reads in a row have both been reported, and a read in a block
\* walked with errors suppressed has not
C17_Witness ==
    /\ phase = "done"
    /\ ReadsX(FirstStmt) /\ ReadsX(FirstStmt + 6)
    /\ HasDiag("uninitvar", FirstStmt + 2)
    /\ HasDiag("uninitvar", FirstStmt + 8)
    /\ Str(FirstStmt + 12) = "for" /\ ReadsX(FirstStmt + 18)
    /\ Len(diags) = 2

\* the token j lies in the block of the function itself, in no inner block
InBody(j) ==
    /\ j >= FirstStmt
    /\ \A i \in FirstStmt..(j - 1) : Str(i) = "{" => LinkAt(i) < j

\* the { of a while, switch, do or for block follows the token j
LoopOpens(j) ==
    /\ Str(j + 1) = "{"
    /\ \/ Str(j) = "do"
       \/ /\ Str(j) = ")"
          /\ Str(LinkAt(j) - 1) \in {"while", "switch", "for"}

\* the running invocation is at  ) {  ,  name {  or  asm (
AtUnhandled ==
    /\ phase = "scope" /\ stack # <<>>
    /\ Top.pc = "scan" /\ Top.tok # 0
    /\ \/ Str(Top.tok) = ")" /\ Str(Top.tok + 1) = "{"
       \/ isName(Top.tok) /\ Str(Top.tok) \notin {"if", "for"}
          /\ Str(Top.tok + 1) = "{"
       \/ Str(Top.tok) = "asm" /\ Str(Top.tok + 1) = "("

\* C18: at  ) {  that the if / for handling has not consumed, at  name {
\* and at  asm (  the walker settles at once and reports nothing; no
\* diagnostic is reported at a token behind the { of a while, switch, do or
\* for block of the scope that is walked.
C18_UnhandledScopeSettles ==
    /\ [][AtUnhandled =>
            /\ diags' = diags
            /\ stack'[Len(stack)].pc = "ret" /\ stack'[Len(stack)].val]_vars
    /\ [](\A j \in 1..NTok :
            (InBody(j) /\ LoopOpens(j))
                => \A k \in 1..Len(diags) : diags[k].tok <= j)

\* a do block with a read of x in it, a read of x behind it, and the walk
\* is over without a diagnostic
C18_Witness ==
    /\ phase = "done"
    /\ Str(FirstStmt) = "do" /\ LoopOpens(FirstStmt)
    /\ ReadsX(FirstStmt + 2)
    /\ \E j \in 1..NTok : j > LinkAt(FirstStmt + 1) /\ InBody(j) /\ ReadsX(j)
    /\ diags = <<>>

\* the running invocation is at an if; its condition is scanned next
AtIfHead ==
    /\ phase = "scope" /\ stack # <<>>
    /\ Top.pc = "scan" /\ Str(Top.tok) = "if" /\ Str(Top.tok + 1) = "("

\* the tokens of the condition
HeadToks == (Top.tok + 2)..(LinkAt(Top.tok + 1) - 1)

\* the occurrences of the variable in the condition
HeadOccs == {i \in HeadToks : VarIdAt(i) = Top.v}

HeadRead(i) == isVariableUsage(i, Variable(Top.v).isPointer)

\* errors are suppressed when the scan is at the token i of the condition
HeadSuppressed(i) ==
    \/ Top.suppressErrors
    \/ Top.number_of_if > 0 /\ \E k \in HeadToks : k < i /\ Str(k) = "&&"

\* C19 as stated: a read in the condition is reported unless suppressed and
\* the scan goes on; the condition settles the walk exactly when it holds
\* an occurrence of the variable that is no read.
C19_ReadContinues ==
    [][AtIfHead =>
         ((stack'[Len(stack)].pc = "ret")
             <=> \E i \in HeadOccs : ~HeadRead(i))]_vars

\* C19: the scan of a condition ends at the first occurrence of the
\* variable that is no read, or is a read while errors are not suppressed:
\* the read is reported there, and the condition settles the walk.  Reads
\* met while errors are suppressed are passed over.  Without such an
\* occurrence nothing is reported and the walk goes on with the branch.
C19_FirstReportSettles ==
    [][AtIfHead =>
         LET stops == {i \in HeadOccs : ~(HeadRead(i) /\ HeadSuppressed(i))}
             after == stack'[Len(stack)]
         IN  IF stops = {}
             THEN diags' = diags /\ after.pc = "ifThen"
             ELSE /\ after.pc = "ret" /\ after.val
                  /\ diags' = IF HeadRead(Min(stops))
                              THEN Append(diags, uninitvarError(Min(stops)))
                              ELSE diags]_vars

\* if ( x < 0 && x > 5 ) { }  then a read of x: the walk is over and the
\* first x of the condition is all that has been reported
C19_Witness ==
    /\ phase = "done"
    /\ Str(FirstStmt) = "if" /\ VarIdAt(FirstStmt + 2) = 4
    /\ Str(FirstStmt + 5) = "&&" /\ VarIdAt(FirstStmt + 6) = 4
    /\ ReadsX(AfterIf(FirstStmt))
    /\ Len(diags) = 1 /\ diags[1].tok = FirstStmt + 2

\* a && of the condition stands before its token i
BehindAnd(i) == \E k \in HeadToks : k < i /\ Str(k) = "&&"

\* the diagnostics a step has added
Reported == {diags'[k].tok : k \in (Len(diags) + 1)..Len(diags')}

\* when number_of_if > 0, no read of the variable behind a && of the
\* condition is reported, and an occurrence behind the && that is no read
\* still settles the walk
SuppressedBehindAnd ==
    Top.number_of_if > 0 =>
        /\ \A i \in HeadOccs :
              (BehindAnd(i) /\ HeadRead(i)) => i \notin Reported
        /\ (\E i \in HeadOccs : BehindAnd(i) /\ ~HeadRead(i))
              => stack'[Len(stack)].pc = "ret" /\ stack'[Len(stack)].val

\* C20 as stated: ... and when number_of_if = 0 the reads behind a && are
\* reported.
C20_ReadsBehindAndReported ==
    [][AtIfHead =>
         /\ SuppressedBehindAnd
         /\ Top.number_of_if = 0 =>
              \A i \in HeadOccs :
                  (BehindAnd(i) /\ HeadRead(i)) => i \in Reported]_vars

\* C20: when number_of_if > 0, no read of the variable behind a && of the
\* condition is reported, and an occurrence behind the && that is no read
\* still settles the walk; when number_of_if = 0 the && changes nothing: a
\* read behind it is reported exactly when the invocation does not suppress
\* errors and the read is the first occurrence of the variable in the
\* condition.
C20_AndSuppressesReads ==
    [][AtIfHead =>
         /\ SuppressedBehindAnd
         /\ Top.number_of_if = 0 =>
              \A i \in HeadOccs :
                  (BehindAnd(i) /\ HeadRead(i)) =>
                      (i \in Reported
                          <=> ~Top.suppressErrors /\ i = Min(HeadOccs))]_vars

\* an if that initialises x, then  if ( y && x < 0 ) { }  , then a read of
\* x: the read in the statement is all that has been reported
C20_Witness ==
    /\ phase = "done"
    /\ PartialInit(FirstStmt) /\ IfAssigns(FirstStmt)
    /\ Str(AfterIf(FirstStmt)) = "if" /\ Str(AfterIf(FirstStmt) + 3) = "&&"
    /\ VarIdAt(AfterIf(FirstStmt) + 4) = 4
    /\ Str(AfterIf(FirstStmt) + 5) = "<"
    /\ ReadsX(AfterIf(AfterIf(FirstStmt)))
    /\ Len(diags) = 1
    /\ diags[1].tok = AfterIf(AfterIf(FirstStmt)) + 2

----------------------------------------------------------------------------
(* Properties of the usage classifier (SpecUsage) *)

\* the running invocation is at its variable in  & var  behind one of
\* ( , = ? :
AddressPassed ==
    /\ VariableSeen
    /\ Str(Top.tok - 1) = "&"
    /\ Str(Top.tok - 2) \in {"(", ",", "=", "?", ":"}

\* C21 as stated: such an occurrence is no read, whatever follows the
\* variable: nothing is reported at it and the walk settles.
C21_AddressNeverRead ==
    [][(AddressPassed /\ ~Top.suppressErrors) =>
         /\ diags' = diags
         /\ stack'[Len(stack)].pc = "ret"]_vars

\* C21: such an occurrence is not taken for a read on account of the & in
\* front of it, but the rules for what follows the variable still apply:
\* it is a read, and is reported, exactly when ++, -- or an operator
\* follows a non-pointer variable and the occurrence is not the target of
\* an assignment  * ( & var .. ) = .
C21_AddressReadByTrailing ==
    [][(AddressPassed /\ ~Top.suppressErrors /\ ~Variable(Top.v).isPointer) =>
         IF /\ Str(Top.tok + 1) \in OpStrs \cup IncDecStrs
            /\ ~(/\ Str(Top.tok - 2) = "(" /\ Str(Top.tok - 3) = "*"
                  /\ Str(Top.tok - 4) \in {";", "{", "}"})
         THEN /\ diags' = Append(diags, uninitvarError(Top.tok))
              /\ stack'[Len(stack)].pc = "scan"
         ELSE /\ diags' = diags
              /\ stack'[Len(stack)].pc = "ret"]_vars

\* f ( & x + 1 ) ;  is the first statement and the x in it has been
\* reported
C21_Witness ==
    /\ phase = "done"
    /\ Str(FirstStmt) = "f" /\ Str(FirstStmt + 1) = "("
    /\ Str(FirstStmt + 2) = "&" /\ VarIdAt(FirstStmt + 3) = 4
    /\ Str(FirstStmt + 4) = "+"
    /\ HasDiag("uninitvar", FirstStmt + 3)

----------------------------------------------------------------------------
(* Properties of the execution-path pass on allocation, release and        *)
(* aliasing (SpecPointers)                                                 *)

\* parse() is called next, at an occurrence of a variable that has a check
AtTracked ==
    /\ phase = "paths" /\ pos # 0 /\ Str(pos) # "}"
    /\ VarIdAt(pos) # 0 /\ VarIdAt(pos) \in IdsOf(checks)

\* the checks of the variable id v in the list cs
ChecksOf(cs, v) == {k \in 1..Len(cs) : cs[k].varId = v}

\* var = malloc ( .. )  ,  var = kmalloc ( .. )  or  var = new char [ .. ]
AllocStmt(j) ==
    /\ Str(j - 1) \in {";", "{", "}"} /\ Str(j + 1) = "="
    /\ \/ Str(j + 2) \in {"malloc", "kmalloc"}
       \/ Str(j + 2) = "new" /\ Str(j + 3) = "char" /\ Str(j + 4) = "["

\* C22 as stated: an allocation assigned to a variable that has a check
\* sets alloc of the check and leaves the check in the list, for every
\* variable.
C22_AllocKeepsEveryCheck ==
    [][(AtTracked /\ AllocStmt(pos)) =>
         /\ ChecksOf(checks', VarIdAt(pos)) # {}
         /\ \A k \in ChecksOf(checks', VarIdAt(pos)) : checks'[k].alloc]_vars

\* C22: an allocation assigned to a pointer that is no array sets alloc of
\* its check and leaves the check in the list; the check of any other
\* variable is removed.
C22_AllocOfPointer ==
    [][(AtTracked /\ AllocStmt(pos)) =>
         IF Variable(VarIdAt(pos)).isPointer /\ ~Variable(VarIdAt(pos)).isArray
         THEN /\ ChecksOf(checks', VarIdAt(pos)) # {}
              /\ \A k \in ChecksOf(checks', VarIdAt(pos)) : checks'[k].alloc
         ELSE ChecksOf(checks', VarIdAt(pos)) = {}]_vars

\* p = kmalloc ( 8 ) ; free ( p ) ;  with p declared without initializer:
\* the pass is over and nothing has been reported
C22_Witness ==
    /\ phase # "paths" /\ ~pDeclInit
    /\ AllocStmt(FirstStmt) /\ VarIdAt(FirstStmt) = 1
    /\ Str(FirstStmt + 2) = "kmalloc"
    /\ FreeOf(FirstStmt + 7, 1)
    /\ \E i \in 1..Len(trace) :
          trace[i].tok = FirstStmt + 7
          /\ \E k \in ChecksOf(trace[i].pre, 1) : trace[i].pre[k].alloc
    /\ diags = <<>>

\* free ( var )  ,  kfree ( var )  ,  fclose ( var )  or  realloc ( var
DeallocStmt(j) ==
    \/ /\ Str(j) \in {"free", "kfree", "fclose"} /\ Str(j + 1) = "("
       /\ isName(j + 2) /\ Str(j + 3) = ")"
    \/ Str(j) = "realloc" /\ Str(j + 1) = "(" /\ isName(j + 2)

\* parse() is called next, at a release whose argument has a check
AtDealloc ==
    /\ phase = "paths" /\ pos # 0 /\ checks # <<>>
    /\ DeallocStmt(pos) /\ VarIdAt(pos + 2) \in IdsOf(checks)

\* the step reports uninitvar at the token j and nothing else
ReportsUninitvarAt(j) ==
    /\ Len(diags') = Len(diags) + 1
    /\ SubSeq(diags', 1, Len(diags)) = diags
    /\ diags'[Len(diags')].id = "uninitvar"
    /\ diags'[Len(diags')].tok = j

\* the step reports nothing and leaves every check of v with alloc unset
ClearsAlloc(v) ==
    /\ diags' = diags
    /\ ChecksOf(checks', v) # {}
    /\ \A k \in ChecksOf(checks', v) : ~checks'[k].alloc

\* C23 as stated: a release of a variable that has a check reports
\* uninitvar at the argument when the check is not allocated and the
\* variable is no array; otherwise it reports nothing and unsets alloc.
C23_ReleaseOfAnyVariable ==
    [][AtDealloc =>
         LET v == VarIdAt(pos + 2)
             c == checks[FirstOf(checks, v)]
         IN  IF ~c.alloc /\ ~Variable(v).isArray
             THEN ReportsUninitvarAt(pos + 2)
             ELSE ClearsAlloc(v)]_vars

\* C23: a release of a variable that has a check reports uninitvar at the
\* argument when the variable is a pointer, no array, and the check is not
\* allocated; otherwise (an allocated pointer, an array, a variable that is
\* no pointer) it reports nothing and leaves alloc unset.
C23_ReleaseOfPointer ==
    [][AtDealloc =>
         LET v == VarIdAt(pos + 2)
             c == checks[FirstOf(checks, v)]
         IN  IF Variable(v).isPointer /\ ~Variable(v).isArray /\ ~c.alloc
             THEN ReportsUninitvarAt(pos + 2) /\ checks' = checks
             ELSE ClearsAlloc(v)]_vars

\* p = malloc ( 8 ) ; realloc ( p , 8 ) ;  with p declared without
\* initializer: the release found p allocated, the pass is over, p still
\* has its check, alloc unset, and nothing has been reported
C23_Witness ==
    /\ pos = FirstStmt + 14 /\ ~pDeclInit
    /\ AllocStmt(FirstStmt) /\ Str(FirstStmt + 2) = "malloc"
    /\ VarIdAt(FirstStmt) = 1
    /\ Str(FirstStmt + 7) = "realloc" /\ VarIdAt(FirstStmt + 9) = 1
    /\ AllocatedAt(FirstStmt + 7, 1)
    /\ ChecksOf(checks, 1) # {}
    /\ \A k \in ChecksOf(checks, 1) : ~checks[k].alloc
    /\ diags = <<>>

\* * var = expr ;  at the start of a statement, var not dereferenced in expr
DerefAssign(j) ==
    /\ Str(j - 2) \in {";", "{", "}"} /\ Str(j - 1) = "*" /\ Str(j + 1) = "="
    /\ ~usedInRhs(At(j + 2), VarIdAt(j))

\* C24 as stated: the write through a variable that has a check removes
\* the check, whatever the variable and the state of the check are.
C24_WriteRemovesEveryCheck ==
    [][(AtTracked /\ DerefAssign(pos)) =>
         ChecksOf(checks', VarIdAt(pos)) = {}]_vars

\* C24: the write through a variable that has a check removes the check
\* without a report when the check is allocated or the variable is an
\* array; otherwise the checks stay as they are, and uninitvar is reported
\* at the variable when it is a pointer.
C24_WriteThroughAllocated ==
    [][(AtTracked /\ DerefAssign(pos)) =>
         LET v == VarIdAt(pos)
             c == checks[FirstOf(checks, v)]
         IN  IF c.alloc \/ Variable(v).isArray
             THEN ChecksOf(checks', v) = {} /\ diags' = diags
             ELSE /\ checks' = checks
                  /\ IF Variable(v).isPointer
                     THEN ReportsUninitvarAt(pos)
                     ELSE diags' = diags]_vars

\* p = malloc ( 8 ) ; * p = 0 ;  with p declared without initializer: the
\* write found p allocated, the check of p is gone and nothing has been
\* reported
C24_Witness ==
    /\ ~pDeclInit /\ AllocStmt(FirstStmt) /\ VarIdAt(FirstStmt) = 1
    /\ Str(FirstStmt + 2) = "malloc"
    /\ DerefAssign(FirstStmt + 8) /\ VarIdAt(FirstStmt + 8) = 1
    /\ AllocatedAt(FirstStmt + 8, 1)
    /\ PassedBy(FirstStmt + 8)
    /\ 1 \in retired /\ 1 \notin IdsOf(checks)
    /\ diags = <<>>

\* the occurrence j starts a statement
StartsStmt(j) == Str(j - 1) \in {";", "{", "}"}

\* & var
AfterAddressOf(j) == Str(j - 1) = "&" /\ Str(j + 1) \in {";", ")"}
\* var [ .. ] =  at the start of a statement
IndexAssign(j) ==
    /\ StartsStmt(j) /\ Str(j + 1) = "[" /\ LinkAt(j + 1) # 0
    /\ Str(LinkAt(j + 1) + 1) = "="
\* var . member  at the start of a statement
MemberAccess(j) == StartsStmt(j) /\ Str(j + 1) = "." /\ isName(j + 2)
\* .. << var  ,  .. >> var
ShiftRightOperand(j) == Str(j - 1) \in {"<<", ">>"} /\ Str(j + 1) = ";"
\* var << ..  ,  var >> ..  at the start of a statement
ShiftLeftOperand(j) == StartsStmt(j) /\ Str(j + 1) \in {"<<", ">>"}

\* the step removes the checks of v and reports nothing
Removes(v) == ChecksOf(checks', v) = {} /\ diags' = diags

\* the check is one of a pointer, no array, that is not allocated
DeadPointer(c) == isPointer(c) /\ ~isArray(c) /\ ~c.alloc

\* C25 as stated: the occurrence of a variable that has a check behind &,
\* before [ .. ] = , before . member, or (C++) next to << or >> removes
\* the check and reports nothing.
C25_OccurrenceBailsOut ==
    [][(/\ AtTracked
        /\ \/ AfterAddressOf(pos) \/ IndexAssign(pos) \/ MemberAccess(pos)
           \/ ~isC /\ (ShiftRightOperand(pos) \/ ShiftLeftOperand(pos)))
       => Removes(VarIdAt(pos))]_vars

\* C25: the occurrence behind & and (C++) the right operand of << or >>
\* remove the check and report nothing; the statement  var [ .. ] =  and
\* the statement  var . member  do so unless the check is one of a pointer
\* that is not allocated: then uninitvar is reported at the variable and
\* the checks stay; the left operand of << or >> leaves checks and
\* diagnostics as they are; the statement  return & var ;  reports the
\* variable of a check that is no array and no allocated pointer, when
\* the return is parsed.
C25_BailOutOrDeadPointer ==
    [][/\ (AtTracked /\ (AfterAddressOf(pos)
                          \/ (~isC /\ ShiftRightOperand(pos))))
          => Removes(VarIdAt(pos))
       /\ (AtTracked /\ (IndexAssign(pos) \/ MemberAccess(pos)))
          => IF DeadPointer(checks[FirstOf(checks, VarIdAt(pos))])
             THEN ReportsUninitvarAt(pos) /\ checks' = checks
             ELSE Removes(VarIdAt(pos))
       /\ (AtTracked /\ ShiftLeftOperand(pos))
          => checks' = checks /\ diags' = diags
       /\ (/\ phase = "paths" /\ pos # 0 /\ checks # <<>>
           /\ Str(pos) = "return" /\ Str(pos + 1) = "&"
           /\ Str(pos + 3) = ";"
           /\ VarIdAt(pos + 2) \in IdsOf(checks)
           /\ ~UseExempt(checks[FirstOf(checks, VarIdAt(pos + 2))], 0))
          => ReportsUninitvarAt(pos + 2)]_vars

\* C++,  y >> x ;  p . m = 1 ;  with p declared without initializer: the
\* check of x is gone without a report, the one of p is there and p has
\* been reported
C25_Witness ==
    /\ ~isC /\ ~pDeclInit
    /\ Str(FirstStmt) = "y" /\ Str(FirstStmt + 1) = ">>"
    /\ VarIdAt(FirstStmt + 2) = 4 /\ TrackedAt(FirstStmt + 2, 4)
    /\ MemberAccess(FirstStmt + 4) /\ VarIdAt(FirstStmt + 4) = 1
    /\ phase = "paths" /\ pos > FirstStmt + 4
    /\ 4 \in retired /\ 4 \notin IdsOf(checks) /\ 1 \in IdsOf(checks)
    /\ Len(diags) = 1 /\ HasDiag("uninitvar", FirstStmt + 4)

\* p = q ;  at the start of a statement, p and q variables
VarAssign(j) ==
    /\ StartsStmt(j) /\ VarIdAt(j) # 0 /\ Str(j + 1) = "="
    /\ VarIdAt(j + 2) # 0 /\ Str(j + 3) = ";"

\* C26: when the statement  p = q ;  has been parsed, no check of p is one
\* of a pointer, allocated or not, and no check of q is one of an array or
\* a pointer.
C26_AliasingEndsTracking ==
    [][(/\ phase = "paths" /\ pos # 0 /\ checks # <<>>
        /\ VarAssign(pos))
       => /\ \A k \in ChecksOf(checks', VarIdAt(pos)) : ~isPointer(checks'[k])
          /\ \A k \in ChecksOf(checks', VarIdAt(pos + 2)) :
                ~isPointer(checks'[k]) /\ ~isArray(checks'[k])]_vars

\* p = buf ;  with p declared without initializer: the statement was parsed
\* with a check of p and one of buf, both are gone, nothing was reported
C26_Witness ==
    /\ ~pDeclInit /\ VarAssign(FirstStmt)
    /\ VarIdAt(FirstStmt) = 1 /\ VarIdAt(FirstStmt + 2) = 3
    /\ TrackedAt(FirstStmt, 1) /\ TrackedAt(FirstStmt, 3)
    /\ phase = "paths" /\ pos > FirstStmt
    /\ {1, 3} \subseteq retired /\ IdsOf(checks) \cap {1, 3} = {}
    /\ diags = <<>>

\* strncpy ( var , source , N )  with a variable that has a check
AtStrncpy ==
    /\ phase = "paths" /\ pos # 0 /\ checks # <<>>
    /\ Str(pos) = "strncpy" /\ Str(pos + 1) = "("
    /\ VarIdAt(pos + 2) \in IdsOf(checks) /\ Str(pos + 3) = ","
    /\ Str(pos + 5) = "," /\ isNumber(pos + 6) /\ Str(pos + 7) = ")"

\* the step leaves the checks of v in the list, strncpy_ set
MarksUnterminated(v) ==
    /\ ChecksOf(checks', v) # {}
    /\ \A k \in ChecksOf(checks', v) : checks'[k].strncpy_

\* C28 as stated: a copy of a literal with a count of at most the length
\* of the literal plus one removes the check of the destination; a larger
\* count, or a source that is no literal, leaves the check with strncpy_
\* set.
C28_SmallCountInitializes ==
    [][AtStrncpy =>
         IF /\ isStr(pos + 4)
            /\ toLongNumber(Str(pos + 6)) <= getStrLength(Str(pos + 4)) + 1
         THEN ChecksOf(checks', VarIdAt(pos + 2)) = {}
         ELSE MarksUnterminated(VarIdAt(pos + 2))]_vars

\* C28: a copy of a literal with a count greater than the length of the
\* literal (the terminating zero is copied) removes the check of the
\* destination; a count of at most the length, or a source that is no
\* literal, leaves the check with strncpy_ set.
C28_LargeCountInitializes ==
    [][AtStrncpy =>
         IF /\ isStr(pos + 4)
            /\ toLongNumber(Str(pos + 6)) > getStrLength(Str(pos + 4))
         THEN ChecksOf(checks', VarIdAt(pos + 2)) = {}
         ELSE MarksUnterminated(VarIdAt(pos + 2))]_vars

\* strncpy ( buf , "hello" , 6 ) ;  parsed with a check of buf: the check
\* is gone and nothing has been reported
C28_Witness ==
    /\ StrncpyOf(FirstStmt, "\"hello\"", "6")
    /\ TrackedAt(FirstStmt, 3)
    /\ phase = "paths" /\ pos > FirstStmt
    /\ 3 \in retired /\ 3 \notin IdsOf(checks)
    /\ diags = <<>>

----------------------------------------------------------------------------
(* Properties of the execution-path pass on calls of registered functions  *)
(* (Spec)                                                                  *)

\* name ( x )  at the start of a statement, x the scalar, with a check
CallWithX(j) ==
    /\ StartsStmt(j) /\ isName(j) /\ VarIdAt(j) = 0
    /\ Str(j + 1) = "(" /\ VarIdAt(j + 2) = 4 /\ Str(j + 3) = ")"
    /\ 4 \in IdsOf(checks)

\* parse() is called next, at the token j
ParsesNext(j) == phase = "paths" /\ pos = j /\ pos # 0 /\ checks # <<>>

\* C29: a call with the scalar x as its argument, x with a check.  The
\* name is in the registry: the call leaves checks and diagnostics as they
\* are, and the argument is reported, uninitvar, its check left in the
\* list.  The name is not in the registry: the call removes the check of x
\* and reports nothing.
C29_RegistryCallReadsArgument ==
    [][/\ (ParsesNext(pos) /\ CallWithX(pos) /\ Str(pos) \in uvarFunctions)
          => checks' = checks /\ diags' = diags
       /\ (ParsesNext(pos) /\ CallWithX(pos - 2)
           /\ Str(pos - 2) \in uvarFunctions)
          => ReportsUninitvarAt(pos) /\ checks' = checks
       /\ (ParsesNext(pos) /\ CallWithX(pos) /\ Str(pos) \notin uvarFunctions)
          => Removes(4)]_vars

\* f declared with a reference parameter it only reads, f ( x ) ; the
\* first statement of main: the scan has put f in the registry, the pass
\* has gone past the call with the check of x still there, and x has been
\* reported at the call
C29_Witness ==
    /\ Str(1) = "void" /\ Str(2) = "f" /\ "f" \in uvarFunctions
    /\ Str(FirstStmt) = "f" /\ VarIdAt(FirstStmt + 2) = 4
    /\ run = 1 /\ phase = "paths" /\ pos = FirstStmt + 3
    /\ 4 \in IdsOf(checks)
    /\ Len(diags) = 1 /\ HasDiag("uninitvar", FirstStmt + 2)

\* the helper f is declared in front of main, with one parameter
HelperF == Str(2) = "f" /\ Str(3) = "(" /\ Str(4) # ")"

\* the shapes of a parameter the scan accepts: a value of standard type, a
\* reference to a standard type, a const standard type by value, reference
\* or pointer
ByValue == isStandardType(4) /\ VarIdAt(5) # 0 /\ Str(6) = ")"
ByReference ==
    isStandardType(4) /\ Str(5) = "&" /\ VarIdAt(6) # 0 /\ Str(7) = ")"
ByConst ==
    /\ Str(4) = "const" /\ isStandardType(5)
    /\ \/ VarIdAt(6) # 0 /\ Str(7) = ")"
       \/ Str(6) \in {"&", "*"} /\ VarIdAt(7) # 0 /\ Str(8) = ")"
AcceptedShape == ByValue \/ ByReference \/ ByConst

\* the occurrences of the parameter in the body of f
BodyOccs ==
    {j \in (LinkAt(3) + 1)..LinkAt(LinkAt(3) + 1) : VarIdAt(j) = 5}
AdjacentIncDec(j) == isIncDec(j - 1) \/ isIncDec(j + 1)

\* executionPaths() scans next, and f is not in the registry
ScansNext == phase = "analyse" /\ jobs = 1 /\ "f" \notin uvarFunctions

\* C30 as stated: the scan puts a function in the registry exactly when
\* every parameter has an accepted shape and every occurrence of a
\* reference parameter in the body is next to ++ or -- .
C30_AddedIffOnlyIncDec ==
    [][ScansNext =>
         ("f" \in uvarFunctions'
            <=> /\ HelperF /\ AcceptedShape
                /\ ByReference => \A j \in BodyOccs : AdjacentIncDec(j))]_vars

\* C30: the scan puts a function in the registry exactly when it has a
\* parameter, every parameter has an accepted shape, and a reference
\* parameter occurs in the body, every occurrence next to ++ or -- ; a
\* function without parameters is not put in the registry.
C30_AddedIffReadAtLeastOnce ==
    [][ScansNext =>
         /\ "f" \in uvarFunctions'
            <=> /\ HelperF /\ AcceptedShape
                /\ ByReference => /\ BodyOccs # {}
                                  /\ \A j \in BodyOccs : AdjacentIncDec(j)
         /\ "main" \notin uvarFunctions']_vars

\* void f ( int & a ) { }  in front of main: the scan is over and f is not
\* in the registry
C30_Witness ==
    /\ HelperF /\ ByReference /\ BodyOccs = {}
    /\ jobs = 1 /\ run = 1 /\ phase = "paths"
    /\ "f" \notin uvarFunctions

----------------------------------------------------------------------------
(* Properties of the generic use check (SpecUse)                           *)

\* the cases in which a check is passed over, per mode: 0 direct value,
\* 1 array element, 2 mem.. call, 3 pointer method, 4 dead pointer,
\* 5 array or pointer data
ExemptCase(c, m) ==
    CASE m = 0 -> Variable(c.varId).isArray
                  \/ (Variable(c.varId).isPointer /\ c.alloc)
      [] m = 1 -> FALSE
      [] m = 2 -> c.strncpy_
      [] m = 3 -> ~Variable(c.varId).isPointer \/ Variable(c.varId).isArray
      [] m = 4 -> \/ ~Variable(c.varId).isPointer
                  \/ Variable(c.varId).isArray \/ c.alloc
      [] m = 5 -> /\ ~Variable(c.varId).isArray
                  /\ ~Variable(c.varId).isPointer

----------------------------------------------------------------------------
(* Properties of the scalar walker on blocks in blocks (SpecNested)        *)

\* an invocation that was entered with the errors suppressed has not
\* returned yet
Suppressed(i) ==
    /\ i \in 1..Len(stack) /\ stack[i].suppressErrors
    /\ ~(i = Len(stack) /\ stack[i].pc = "ret")

\* C31: while an invocation entered with the errors suppressed runs, or
\* one called inside it, nothing is reported.
C31_SuppressionInherited ==
    [][(\E i \in 1..Len(stack) : Suppressed(i)) => diags' = diags]_vars

\* C32: in the run of the walker for a variable no occurrence is reported
\* twice.
C32_ReportedAtMostOnce ==
    \A j, k \in 1..Len(diags) : diags[j].tok = diags[k].tok => j = k

\* the invocation i is at the top of its loop
Scanning(i) == i \in 1..Len(stack) /\ stack[i].pc = "scan"

\* C33 as stated: in an invocation that is still scanning number_of_if is
\* at most 1, whatever conditional construct contributed.
C33_AtMostOneConditionalInit ==
    \A i \in 1..Len(stack) : Scanning(i) => stack[i].number_of_if <= 1

\* the step brings the invocation i back to its loop with a number_of_if
\* that the step has raised to 2 or more
RaisedBeyondOne(i) ==
    /\ i \in 1..Len(stack) /\ i \in 1..Len(stack')
    /\ stack'[i].pc = "scan"
    /\ stack'[i].number_of_if >= 2
    /\ stack'[i].number_of_if > stack[i].number_of_if

\* C33: number_of_if of an invocation that goes on scanning is raised
\* beyond 1 only at the end of an if/else; after an if without else that
\* contributed, the invocation goes on scanning only with number_of_if at
\* most 1.
C33_BeyondOneOnlyByIfElse ==
    [][\A i \in 1..Len(stack) :
          RaisedBeyondOne(i) =>
             /\ Len(stack) = i + 1 /\ stack[i].pc = "ifElse"
             /\ stack'[i].number_of_if = stack[i].number_of_if + 1]_vars

\* an invocation goes on scanning behind two if/else that each initialised
\* the variable in one branch, with number_of_if = 2
C33_Witness ==
    /\ Len(stack) = 1 /\ Scanning(1) /\ stack[1].number_of_if = 2
    /\ Str(stack[1].tok - 1) = "}" /\ Str(LinkAt(stack[1].tok - 1) - 1) = "else"

----------------------------------------------------------------------------
(* Properties of the flags of a check (SpecPointers)                       *)

\* C34: in every list of checks, a check with alloc set is the check of a
\* pointer that is not an array; an allocation assigned to an array or to a
\* variable that is no pointer sets no alloc and removes the checks of the
\* variable.
C34_AllocFlagInvariant ==
    [][/\ \A k \in 1..Len(checks') :
             checks'[k].alloc => isPointer(checks'[k]) /\ ~isArray(checks'[k])
       /\ (/\ AtTracked /\ AllocStmt(pos)
           /\ ~(Variable(VarIdAt(pos)).isPointer
                /\ ~Variable(VarIdAt(pos)).isArray))
          => /\ ChecksOf(checks', VarIdAt(pos)) = {}
             /\ VarIdAt(pos) \in retired']_vars

\* x = malloc ( 8 ) ; p = malloc ( 8 ) ;  with x a plain int: the check of
\* x was in the list at the first statement and is gone after it, and the
\* check of p has alloc set after the second
C34_Witness ==
    /\ phase = "paths" /\ ~pDeclInit
    /\ AllocStmt(FirstStmt) /\ VarIdAt(FirstStmt) = 4
    /\ AllocStmt(FirstStmt + 7) /\ VarIdAt(FirstStmt + 7) = 1
    /\ \E i \in 1..Len(trace) :
          trace[i].tok = FirstStmt /\ ChecksOf(trace[i].pre, 4) # {}
    /\ 4 \in retired /\ ChecksOf(checks, 4) = {}
    /\ \E k \in ChecksOf(checks, 1) : checks[k].alloc


\* a flag of the checks of the variable v in the list cs
AllStrncpy(cs, v) == \A k \in ChecksOf(cs, v) : cs[k].strncpy_
AllMemset(cs, v) == \A k \in ChecksOf(cs, v) : cs[k].memset_nonzero
SomeStrncpy(cs) == \E k \in 1..Len(cs) : cs[k].strncpy_
SomeMemset(cs) == \E k \in 1..Len(cs) : cs[k].memset_nonzero

\* memset ( var , c , n )  with c other than 0
MemsetNonZero(j) ==
    /\ Str(j) = "memset" /\ Str(j + 1) = "(" /\ Str(j + 3) = ","
    /\ Str(j + 4) # "0"

\* C35: strncpy_ and memset_nonzero are false in the first list of checks;
\* while a variable keeps its checks a flag that is set stays set; and a
\* flag is set for a variable only by the step at  strncpy ( var  or at
\* memset ( var , c  with c other than 0.
C35_FlagsMonotone ==
    /\ (trace = <<>> => ~SomeStrncpy(checks) /\ ~SomeMemset(checks))
    /\ [][\A v \in IdsOf(checks') :
             /\ v \in IdsOf(checks) /\ AllStrncpy(checks, v)
                   => AllStrncpy(checks', v)
             /\ v \in IdsOf(checks) /\ AllMemset(checks, v)
                   => AllMemset(checks', v)
             /\ (\E k \in ChecksOf(checks', v) : checks'[k].strncpy_)
                /\ ~(v \in IdsOf(checks) /\ AllStrncpy(checks, v))
                   => Str(pos) = "strncpy" /\ VarIdAt(pos + 2) = v
             /\ (\E k \in ChecksOf(checks', v) : checks'[k].memset_nonzero)
                /\ ~(v \in IdsOf(checks) /\ AllMemset(checks, v))
                   => MemsetNonZero(pos) /\ VarIdAt(pos + 2) = v]_vars

\* strncpy ( buf , "hello" , 5 ) ; memset ( buf , 1 , 8 ) ; free ( buf ) ;
\* the check of buf has both flags set after the free, and alloc is false
C35_Witness ==
    /\ phase = "paths"
    /\ Str(FirstStmt) = "strncpy" /\ VarIdAt(FirstStmt + 2) = 3
    /\ MemsetNonZero(FirstStmt + 9) /\ VarIdAt(FirstStmt + 11) = 3
    /\ FreeOf(FirstStmt + 18, 3)
    /\ \E i \in 1..Len(trace) : trace[i].tok = FirstStmt + 18
    /\ \E k \in ChecksOf(checks, 3) :
          checks[k].strncpy_ /\ checks[k].memset_nonzero /\ ~checks[k].alloc

----------------------------------------------------------------------------
(* Termination of the scalar walker (SpecNestedLive)                       *)

\* the { of the block the invocation called by the frame f runs in
Opener(f) == IF f.pc = "forBody" THEN LinkAt(f.tok + 1) + 1 ELSE f.tok

\* the invocation whose code runs in the next step (0: checkScope's)
Actor ==
    IF stack = <<>> THEN 0
    ELSE IF Top.pc = "scan" THEN Len(stack) ELSE Len(stack) - 1

\* every called invocation is strictly inside a block that starts at or
\* behind the position of its caller, and that block lies strictly inside
\* the block its caller runs in
CallsInsideNestedBlocks ==
    \A i \in 2..Len(stack) :
        LET o == Opener(stack[i - 1])
        IN  /\ Str(o) = "{" /\ LinkAt(o) > o
            /\ stack[i - 1].tok <= o
            /\ o < stack[i].tok /\ stack[i].tok <= LinkAt(o)
            /\ i > 2 => /\ Opener(stack[i - 2]) < o
                        /\ LinkAt(o) < LinkAt(Opener(stack[i - 2]))

\* a step of an invocation never moves its position back, and when the
\* invocation goes on with its loop the position has moved forward
StepsForward ==
    (Actor >= 1 /\ stack' # stack) =>
        /\ Len(stack') >= Actor
        /\ stack'[Actor].tok >= stack[Actor].tok
        /\ stack'[Actor].pc = "scan" => stack'[Actor].tok > stack[Actor].tok
        /\ \A i \in 1..(Actor - 1) : stack'[i] = stack[i]

\* C36: on token streams with well-formed links the walker terminates; each
\* turn of its loop moves the position strictly forward, and each recursive
\* call starts strictly inside a block nested in the block of its caller,
\* and no invocation dereferences a null token.
C36_WalkerTerminates ==
    /\ <>(phase # "scope")
    /\ [](CallsInsideNestedBlocks
          /\ \A i \in 1..Len(stack) : stack[i].pc # "fault")
    /\ [][StepsForward]_vars

\* for ( ; ; ) { { y = x + 1 ; } }  is the first statement: the walk is
\* over, and the x two blocks deep has been reached and reported
C36_Witness ==
    /\ phase # "scope" /\ stack = <<>> /\ 4 \in started
    /\ Str(FirstStmt) = "for" /\ Str(FirstStmt + 5) = "{"
    /\ Str(FirstStmt + 6) = "{" /\ VarIdAt(FirstStmt + 9) = 4
    /\ \E j \in 1..Len(diags) : diags[j].tok = FirstStmt + 9

============================================================================
